---- MODULE Spec2Model ----
(***************************************************************************)
(* Model of sim-cli (iOS Simulator CLI): the input validators, the device  *)
(* resolver, the action handlers of src/commands/{ui,app,media,            *)
(* notification}.ts and the recording session kept in process.env.         *)
(*                                                                         *)
(* Strings that the code inspects character by character (regular          *)
(* expressions, extname, argument vectors) are sequences of one-character  *)
(* strings.  An optional value (undefined | string) is a sequence of       *)
(* length 0 or 1.  Messages of the program's own errors, which the code    *)
(* only passes along, are plain strings.                                   *)
(***************************************************************************)
EXTENDS Integers, Sequences, FiniteSets, TLC

\* ------------------------------------------------------------------ bounds
MaxInvocations == 2
MaxHandlerCalls == 1
MaxResolves == 2
MaxStderrChunks == 2
MaxPolls == 2
MaxCalls == 2

\* ------------------------------------------------------- character classes
Digit == {"0", "1", "2", "3", "4", "5", "6", "7", "8", "9"}
LowerAlpha == {"a", "b", "c", "d", "e", "f", "g", "h", "i", "j", "k", "l", "m",
               "n", "o", "p", "q", "r", "s", "t", "u", "v", "w", "x", "y", "z"}
UpperAlpha == {"A", "B", "C", "D", "E", "F", "G", "H", "I", "J", "K", "L", "M",
               "N", "O", "P", "Q", "R", "S", "T", "U", "V", "W", "X", "Y", "Z"}
HexChar == Digit \cup {"a", "b", "c", "d", "e", "f", "A", "B", "C", "D", "E", "F"}

None == <<>>
Some(v) == <<v>>

\* JavaScript truthiness of an optional string: undefined and "" are falsy.
Truthy(opt) == opt # None /\ opt[1] # <<>>

\* --------------------------------------------------------------- validators
\* /^[0-9A-Fa-f]{8}-[0-9A-Fa-f]{4}-[0-9A-Fa-f]{4}-[0-9A-Fa-f]{4}-[0-9A-Fa-f]{12}$/
UDID_REGEX(s) ==
    /\ Len(s) = 36
    /\ \A i \in 1..36 : IF i \in {9, 14, 19, 24} THEN s[i] = "-" ELSE s[i] \in HexChar

udidSchema(s) == UDID_REGEX(s)

\* /^\d+(\.\d+)?$/
durationSchema(s) ==
    \/ Len(s) >= 1 /\ \A i \in 1..Len(s) : s[i] \in Digit
    \/ \E k \in 2..(Len(s) - 1) :
          /\ s[k] = "."
          /\ \A i \in 1..(k - 1) : s[i] \in Digit
          /\ \A i \in (k + 1)..Len(s) : s[i] \in Digit

\* z.string().max(256).regex(/^[a-zA-Z0-9.-]+$/)
bundleIdSchema(s) ==
    /\ Len(s) <= 256
    /\ Len(s) >= 1
    /\ \A i \in 1..Len(s) : s[i] \in (LowerAlpha \cup UpperAlpha \cup Digit \cup {".", "-"})

\* ----------------------------------------------------------------- errors
SUCCESS == 0
GENERAL_ERROR == 1
INVALID_ARGUMENTS == 2
SIMULATOR_NOT_FOUND == 3
TIMEOUT == 4
PERMISSION_DENIED == 5
FILE_NOT_FOUND == 6
COMMAND_NOT_FOUND == 127

\* An error value: cls is the JavaScript class, code the SimulatorError code
\* (for a process error: the code property the process layer set), msg the
\* message of an error the program constructs, text the message of an error
\* that came from the process layer, suggestions the remediation hints a
\* SimulatorError was constructed with.
SimulatorError(msg, code) ==
    [cls |-> "SimulatorError", code |-> code, msg |-> msg, text |-> <<>>, suggestions |-> <<>>]
SimulatorErrorHints(msg, code, suggestions) ==
    [cls |-> "SimulatorError", code |-> code, msg |-> msg, text |-> <<>>,
     suggestions |-> suggestions]
ZodError(msg) ==
    [cls |-> "ZodError", code |-> GENERAL_ERROR, msg |-> msg, text |-> <<>>, suggestions |-> <<>>]
ProcessError(code, text) ==
    [cls |-> "Error", code |-> code, msg |-> "process", text |-> text, suggestions |-> <<>>]
NoError == [cls |-> "none", code |-> SUCCESS, msg |-> "", text |-> <<>>, suggestions |-> <<>>]

\* ------------------------------------------ literal tokens of the vectors
T_sep == <<"-", "-">>
T_ui == <<"u", "i">>
T_tap == <<"t", "a", "p">>
T_text == <<"t", "e", "x", "t">>
T_swipe == <<"s", "w", "i", "p", "e">>
T_button == <<"b", "u", "t", "t", "o", "n">>
T_udid == <<"-", "-", "u", "d", "i", "d">>
T_json == <<"-", "-", "j", "s", "o", "n">>
T_duration == <<"-", "-", "d", "u", "r", "a", "t", "i", "o", "n">>
T_delta == <<"-", "-", "d", "e", "l", "t", "a">>
T_simctl == <<"s", "i", "m", "c", "t", "l">>
T_list == <<"l", "i", "s", "t">>
T_devices == <<"d", "e", "v", "i", "c", "e", "s">>
T_io == <<"i", "o">>
T_screenshot == <<"s", "c", "r", "e", "e", "n", "s", "h", "o", "t">>
T_typePng == <<"-", "-", "t", "y", "p", "e", "=", "p", "n", "g">>
T_recordVideo == <<"r", "e", "c", "o", "r", "d", "V", "i", "d", "e", "o">>
T_force == <<"-", "-", "f", "o", "r", "c", "e">>
T_install == <<"i", "n", "s", "t", "a", "l", "l">>
T_launch == <<"l", "a", "u", "n", "c", "h">>
T_uninstall == <<"u", "n", "i", "n", "s", "t", "a", "l", "l">>
T_push == <<"p", "u", "s", "h">>
T_terminate == <<"-", "-", "t", "e", "r", "m", "i", "n", "a", "t", "e", "-", "r", "u", "n", "n", "i", "n", "g", "-", "p", "r", "o", "c", "e", "s", "s">>
T_SIGINT == <<"-", "S", "I", "G", "I", "N", "T">>
T_f == <<"-", "f">>
T_pattern == <<"s", "i", "m", "c", "t", "l", ".", "*", "r", "e", "c", "o", "r", "d", "V", "i", "d", "e", "o">>
T_HOME == <<"H", "O", "M", "E">>
T_LOCK == <<"L", "O", "C", "K">>
T_VOLUME_UP == <<"V", "O", "L", "U", "M", "E", "_", "U", "P">>
T_VOLUME_DOWN == <<"V", "O", "L", "U", "M", "E", "_", "D", "O", "W", "N">>
T_RINGER == <<"R", "I", "N", "G", "E", "R">>
T_codecH264 == <<"-", "-", "c", "o", "d", "e", "c", "=", "h", "2", "6", "4">>
T_codecHevc == <<"-", "-", "c", "o", "d", "e", "c", "=", "h", "e", "v", "c">>
T_tmpFile == <<"/", "t", "m", "p", "/", "s", "i", "m", "-", "c", "l", "i", "/", "n", "o", "t", "i", "f", "i", "c", "a", "t", "i", "o", "n", ".", "j", "s", "o", "n">>

\* ------------------------------------------------------ input value sets
UdidA == <<"3", "7", "A", "3", "6", "0", "E", "C", "-", "7", "5", "F", "9", "-", "4", "A", "E", "C", "-", "8", "E", "F", "A", "-", "1", "0", "F", "4", "A", "5", "8", "D", "8", "C", "C", "A">>
UdidB == <<"0", "0", "0", "0", "a", "a", "a", "a", "-", "b", "b", "b", "b", "-", "c", "c", "c", "c", "-", "d", "d", "d", "d", "-", "e", "e", "e", "e", "f", "f", "f", "f", "1", "1", "1", "1">>
UdidShort == <<"3", "7", "A", "3", "6", "0", "E", "C", "-", "7", "5", "F", "9", "-", "4", "A", "E", "C", "-", "8", "E", "F", "A">>
UdidUnderscore == <<"3", "7", "A", "3", "6", "0", "E", "C", "_", "7", "5", "F", "9", "_", "4", "A", "E", "C", "_", "8", "E", "F", "A", "_", "1", "0", "F", "4", "A", "5", "8", "D", "8", "C", "C", "A">>
BundleGood == <<"c", "o", "m", ".", "a", ".", "b">>
BundleFlag == <<"-", "-", "t", "e", "r", "m", "i", "n", "a", "t", "e", "-", "r", "u", "n", "n", "i", "n", "g", "-", "p", "r", "o", "c", "e", "s", "s">>
BundleSpace == <<"a", " ", "b">>
DurHalf == <<"0", ".", "5">>
DurOne == <<"1">>
DurNeg == <<"-", "1">>
DurWord == <<"a", "b", "c">>
DurDot == <<"1", ".">>
TextHello == <<"H", "i", " ", "t", "h", "e", "r", "e">>
TextFlag == <<"-", "x">>
TextTab == <<"a", "\t", "b">>
TextEmpty == <<>>
TextAccent == <<"C", "a", "f", "é">>
PathApp == <<"/", "b", "/", "M", "y", ".", "a", "p", "p">>
PathAppFile == <<"/", "b", "/", "F", "l", "a", "t", ".", "a", "p", "p">>
PathIpa == <<"/", "b", "/", "M", "y", ".", "i", "p", "a">>
PathZip == <<"/", "b", "/", "f", ".", "z", "i", "p">>
PathMissing == <<"/", "b", "/", "N", "o", ".", "a", "p", "p">>
PathRel == <<"R", ".", "a", "p", "p">>
PathDash == <<"-", "r", ".", "a", "p", "p">>
Cwd == <<"/", "w">>
RecA == <<"/", "m", "/", "a", ".", "m", "p", "4">>
RecB == <<"/", "m", "/", "b", ".", "m", "p", "4">>
ErrBoom == <<"b", "o", "o", "m">>
MsgRecordingStarted == <<"R", "e", "c", "o", "r", "d", "i", "n", "g", " ", "s", "t", "a", "r", "t", "e", "d">>
ErrInvalidDevice == <<"I", "n", "v", "a", "l", "i", "d", " ", "d", "e", "v", "i", "c", "e">>
ErrUnableToFind == <<"U", "n", "a", "b", "l", "e", " ", "t", "o", " ", "f", "i", "n", "d", " ", "a", "p", "p">>
ErrNoSuchFile == <<"N", "o", " ", "s", "u", "c", "h", " ", "f", "i", "l", "e", " ", "o", "r", " ", "d", "i", "r", "e", "c", "t", "o", "r", "y">>
ErrNoMatching == <<"N", "o", " ", "m", "a", "t", "c", "h", "i", "n", "g", " ", "p", "r", "o", "c", "e", "s", "s", "e", "s">>
ErrPermission == <<"p", "e", "r", "m", "i", "s", "s", "i", "o", "n", " ", "d", "e", "n", "i", "e", "d">>
ErrCommandNotFound == <<"s", "h", ":", " ", "i", "d", "b", ":", " ", "c", "o", "m", "m", "a", "n", "d", " ", "n", "o", "t", " ", "f", "o", "u", "n", "d">>
ErrTimedOut == <<"C", "o", "m", "m", "a", "n", "d", " ", "t", "i", "m", "e", "d", " ", "o", "u", "t", " ", "a", "f", "t", "e", "r", " ", "3", "0", " ", "s", "e", "c", "o", "n", "d", "s">>
ErrEACCES == <<"s", "p", "a", "w", "n", " ", "i", "d", "b", " ", "E", "A", "C", "C", "E", "S">>
ErrENOENT == <<"s", "p", "a", "w", "n", " ", "i", "d", "b", " ", "E", "N", "O", "E", "N", "T">>
ErrNoBootedSimulator == <<"N", "o", " ", "b", "o", "o", "t", "e", "d", " ", "s", "i", "m", "u", "l", "a", "t", "o", "r", "s">>
ErrCommandFailed == <<"C", "o", "m", "m", "a", "n", "d", " ", "f", "a", "i", "l", "e", "d", ":", " ", "i", "d", "b">>
OutPadded == <<" ", "o", "k", "\n">>
ErrPadded == <<"\t", "w", "a", "r", "n", " ">>
OutTrimmed == <<"o", "k">>
ErrTrimmed == <<"w", "a", "r", "n">>
S_TimedOutAfter == <<"C", "o", "m", "m", "a", "n", "d", " ", "t", "i", "m", "e", "d", " ", "o", "u", "t", " ", "a", "f", "t", "e", "r", " ">>
S_seconds == <<" ", "s", "e", "c", "o", "n", "d", "s">>
T_listapps == <<"l", "i", "s", "t", "a", "p", "p", "s">>
S_BundleKey == <<"C", "F", "B", "u", "n", "d", "l", "e", "I", "d", "e", "n", "t", "i", "f", "i", "e", "r", " ", "=", " ", "\"">>
AppsNone == <<>>
AppsOne == <<"{", " ", "C", "F", "B", "u", "n", "d", "l", "e", "I", "d", "e", "n", "t", "i", "f", "i", "e", "r", " ", "=", " ", "\"", "c", "o", "m", ".", "a", ".", "b", "\"", ";", " ", "}">>
DeltaTen == <<"1", "0">>
DeltaOne == <<"1">>
DeltaZero == <<"0">>

\* ------------------------------------------------------------ text helpers
\* String.prototype.includes
Includes(s, sub) ==
    \E i \in 0..(Len(s) - Len(sub)) : SubSeq(s, i + 1, i + Len(sub)) = sub

Lower(c) ==
    CASE c = "A" -> "a" [] c = "B" -> "b" [] c = "C" -> "c" [] c = "D" -> "d"
      [] c = "E" -> "e" [] c = "F" -> "f" [] c = "G" -> "g" [] c = "H" -> "h"
      [] c = "I" -> "i" [] c = "J" -> "j" [] c = "K" -> "k" [] c = "L" -> "l"
      [] c = "M" -> "m" [] c = "N" -> "n" [] c = "O" -> "o" [] c = "P" -> "p"
      [] c = "Q" -> "q" [] c = "R" -> "r" [] c = "S" -> "s" [] c = "T" -> "t"
      [] c = "U" -> "u" [] c = "V" -> "v" [] c = "W" -> "w" [] c = "X" -> "x"
      [] c = "Y" -> "y" [] c = "Z" -> "z" [] OTHER -> c

\* String.prototype.toLowerCase
ToLowerCase(s) == [i \in 1..Len(s) |-> Lower(s[i])]

DigitChar(d) ==
    CASE d = 0 -> "0" [] d = 1 -> "1" [] d = 2 -> "2" [] d = 3 -> "3" [] d = 4 -> "4"
      [] d = 5 -> "5" [] d = 6 -> "6" [] d = 7 -> "7" [] d = 8 -> "8" [] d = 9 -> "9"

\* String(n) for a non-negative integer
RECURSIVE NumToString(_)
NumToString(n) ==
    IF n < 10 THEN <<DigitChar(n)>> ELSE NumToString(n \div 10) \o <<DigitChar(n % 10)>>

\* Largest index of character c in s, 0 when absent
LastIndexOf(s, c) ==
    IF \E i \in 1..Len(s) : s[i] = c
    THEN CHOOSE i \in 1..Len(s) : s[i] = c /\ \A j \in (i + 1)..Len(s) : s[j] # c
    ELSE 0

\* path.isAbsolute / path.resolve (POSIX) for the paths install receives
IsAbsolute(p) == Len(p) >= 1 /\ p[1] = "/"
PathResolve(p) == IF IsAbsolute(p) THEN p ELSE Cwd \o <<"/">> \o p

\* path.extname (POSIX): from the last dot of the last path component, empty
\* when there is no dot or the component starts with its only dot
ExtName(p) ==
    LET slash == LastIndexOf(p, "/")
        base == SubSeq(p, slash + 1, Len(p))
        dot == LastIndexOf(base, ".")
    IN  IF dot <= 1 \/ base = <<".", ".">> THEN <<>> ELSE SubSeq(base, dot, Len(base))

EXT_APP == <<".", "a", "p", "p">>
EXT_IPA == <<".", "i", "p", "a">>

\* --------------------------------------------------------- process executor
\* One spawned process: the binary, the argument vector and the mode.
\* timeoutMs is the timeout option execFile gets; the handlers call
\* run(command, args) without options
DEFAULT_TIMEOUT_MS == 30000
TimeoutMs(timeout) ==
    IF timeout # None /\ timeout[1] # 0 THEN timeout[1] * 1000 ELSE DEFAULT_TIMEOUT_MS
Blocking(bin, args) ==
    [bin |-> bin, args |-> args, mode |-> "blocking", timeoutMs |-> TimeoutMs(None)]
Background(bin, args) == [bin |-> bin, args |-> args, mode |-> "background", timeoutMs |-> 0]

\* What a blocking run() gives back: kind "ok" with the trimmed streams, or
\* kind "fail" with the rejected error's code and message.
RunOk == [kind |-> "ok", stdout |-> <<>>, stderr |-> <<>>, code |-> 0, text |-> <<>>]
RunStderr(t) == [kind |-> "ok", stdout |-> <<>>, stderr |-> t, code |-> 0, text |-> <<>>]
RunFail(code, t) == [kind |-> "fail", stdout |-> <<>>, stderr |-> <<>>, code |-> code, text |-> t]
RunStdout(t) == [kind |-> "ok", stdout |-> t, stderr |-> <<>>, code |-> 0, text |-> <<>>]

\* String.prototype.trim
WhiteSpace == {" ", "\t", "\n", "\r"}
RECURSIVE TrimStart(_)
TrimStart(s) == IF s # <<>> /\ Head(s) \in WhiteSpace THEN TrimStart(Tail(s)) ELSE s
RECURSIVE TrimEnd(_)
TrimEnd(s) ==
    IF s # <<>> /\ s[Len(s)] \in WhiteSpace THEN TrimEnd(SubSeq(s, 1, Len(s) - 1)) ELSE s
Trim(s) == TrimEnd(TrimStart(s))

\* What execFile reports to its callback.  kind "ok": the two streams.  kind
\* "error": an error whose code property is a number (exitCode, the exit
\* status of the process), a name (codeName, a system error name such as
\* ENOENT) or null (exitCode -1 and codeName ""), whose killed property tells
\* that execFile itself ended the process, and whose message is message.
ExecOk(stdout, stderr) ==
    [kind |-> "ok", stdout |-> stdout, stderr |-> stderr, exitCode |-> 0, codeName |-> "",
     killed |-> FALSE, message |-> <<>>]
ExecError(exitCode, codeName, killed, message) ==
    [kind |-> "error", stdout |-> <<>>, stderr |-> <<>>, exitCode |-> exitCode,
     codeName |-> codeName, killed |-> killed, message |-> message]

\* The process ended with a non-zero exit status
ExecExit(exitCode, message) == ExecError(exitCode, "", FALSE, message)
\* The process could not be started
ExecSpawnFailure(codeName, message) == ExecError(-1, codeName, FALSE, message)
\* The timeout expired: execFile sends the kill signal and reports an error
\* with killed = true, signal = SIGTERM and code = null
ExecTimeout == ExecError(-1, "", TRUE, ErrCommandFailed)

\* run(command, args, { timeout }) for an outcome ex of execFile: the
\* ExecutorResult, or the error thrown
run(timeout, ex) ==
    LET ms == TimeoutMs(timeout)
    IN  IF ex.kind = "ok"
        THEN [kind |-> "ok", stdout |-> Trim(ex.stdout), stderr |-> Trim(ex.stderr),
              code |-> 0, text |-> <<>>]
        ELSE IF ex.codeName = "ETIMEDOUT"
             THEN RunFail(-1, S_TimedOutAfter \o NumToString(ms \div 1000) \o S_seconds)
             ELSE RunFail(ex.exitCode, ex.message)

ToolResults ==
    {RunOk, RunStderr(ErrBoom), RunFail(1, ErrUnableToFind), RunFail(2, ErrNoSuchFile)}

\* ---------------------------------------------------------- device resolver
Device(udid, state) == [udid |-> udid, state |-> state]

\* Outcomes of `simctl list devices --json`: a parsed list, text on the error
\* stream, unparsable output, or a failed process.
ListOk(devs) == [kind |-> "ok", devices |-> devs]
ListStderr == [kind |-> "stderr", devices |-> <<>>]
ListBadJson == [kind |-> "badjson", devices |-> <<>>]
ListThrow == [kind |-> "throw", devices |-> <<>>]

ListResults ==
    { ListOk(<<Device(UdidA, "Booted")>>),
      ListOk(<<Device(UdidA, "Shutdown"), Device(UdidB, "Booted")>>),
      ListOk(<<Device(UdidB, "Booted"), Device(UdidA, "Booted")>>),
      ListOk(<<Device(UdidA, "Shutdown")>>),
      ListOk(<<>>),
      ListStderr, ListBadJson, ListThrow }

\* The list outcomes the handlers are run against
HandlerListResults ==
    {ListOk(<<Device(UdidA, "Shutdown"), Device(UdidB, "Booted")>>), ListOk(<<>>), ListThrow}

ListVector == <<T_simctl, T_list, T_devices, T_json>>

Resolved(id, spawns) == [ok |-> TRUE, id |-> id, err |-> NoError, spawns |-> spawns]
Unresolved(err, spawns) == [ok |-> FALSE, id |-> <<>>, err |-> err, spawns |-> spawns]

\* getBootedDevice reporting unparsable output as "no simulator booted"
getBootedDevice_ParseAsNotFound(lr) ==
    LET spawns == <<Blocking("xcrun", ListVector)>>
        booted == {i \in 1..Len(lr.devices) : lr.devices[i].state = "Booted"}
    IN  CASE lr.kind = "throw" -> Unresolved(ProcessError(1, ErrBoom), spawns)
          [] lr.kind = "stderr" ->
                Unresolved(SimulatorError("Failed to list devices", GENERAL_ERROR), spawns)
          [] OTHER ->
                IF booted # {}
                THEN Resolved(lr.devices[CHOOSE i \in booted : \A j \in booted : i <= j].udid, spawns)
                ELSE Unresolved(SimulatorErrorHints("No simulator is currently booted",
                                                    SIMULATOR_NOT_FOUND,
                                                    <<"Open Simulator.app", "Run: sim-cli open",
                                                      "Specify a device with --device <udid>">>),
                                spawns)

getBootedDevice(lr) ==
    LET spawns == <<Blocking("xcrun", ListVector)>>
        booted == {i \in 1..Len(lr.devices) : lr.devices[i].state = "Booted"}
    IN  CASE lr.kind = "throw" -> Unresolved(ProcessError(1, ErrBoom), spawns)
          [] lr.kind = "stderr" ->
                Unresolved(SimulatorError("Failed to list devices", GENERAL_ERROR), spawns)
          [] lr.kind = "badjson" ->
                Unresolved(SimulatorError("Failed to parse device list", GENERAL_ERROR), spawns)
          [] OTHER ->
                IF booted # {}
                THEN Resolved(lr.devices[CHOOSE i \in booted : \A j \in booted : i <= j].udid, spawns)
                ELSE Unresolved(SimulatorErrorHints("No simulator is currently booted",
                                                    SIMULATOR_NOT_FOUND,
                                                    <<"Open Simulator.app", "Run: sim-cli open",
                                                      "Specify a device with --device <udid>">>),
                                spawns)

\* getDeviceId consulting the environment default before the explicit argument
getDeviceId_EnvFirst(providedId, envDevice, lr) ==
    IF Truthy(envDevice)
    THEN IF ~udidSchema(envDevice[1])
         THEN Unresolved(SimulatorError(
                  "Invalid device UDID in SIM_CLI_DEVICE environment variable",
                  INVALID_ARGUMENTS), <<>>)
         ELSE Resolved(envDevice[1], <<>>)
    ELSE IF Truthy(providedId)
         THEN IF ~udidSchema(providedId[1])
              THEN Unresolved(SimulatorError("Invalid device UDID format", INVALID_ARGUMENTS), <<>>)
              ELSE Resolved(providedId[1], <<>>)
         ELSE getBootedDevice(lr)

getDeviceId(providedId, envDevice, lr) ==
    IF Truthy(providedId)
    THEN IF ~udidSchema(providedId[1])
         THEN Unresolved(SimulatorError("Invalid device UDID format", INVALID_ARGUMENTS), <<>>)
         ELSE Resolved(providedId[1], <<>>)
    ELSE IF Truthy(envDevice)
         THEN IF ~udidSchema(envDevice[1])
              THEN Unresolved(SimulatorError(
                       "Invalid device UDID in SIM_CLI_DEVICE environment variable",
                       INVALID_ARGUMENTS), <<>>)
              ELSE Resolved(envDevice[1], <<>>)
         ELSE getBootedDevice(lr)

\* ------------------------------------------------------------ more literals
B_home == <<"h", "o", "m", "e">>
B_lock == <<"l", "o", "c", "k">>
B_volume_up == <<"v", "o", "l", "u", "m", "e", "-", "u", "p">>
B_volume_down == <<"v", "o", "l", "u", "m", "e", "-", "d", "o", "w", "n">>
B_ringer == <<"r", "i", "n", "g", "e", "r">>
B_power == <<"p", "o", "w", "e", "r">>
B_home_lock == <<"h", "o", "m", "e", "+", "l", "o", "c", "k">>
ButtonHOME == <<"H", "O", "M", "E">>
ButtonBack == <<"b", "a", "c", "k">>
ButtonHomePower == <<"h", "o", "m", "e", "+", "p", "o", "w", "e", "r">>
S_UnableToFind == <<"U", "n", "a", "b", "l", "e", " ", "t", "o", " ", "f", "i", "n", "d">>
S_NoSuchFile == <<"N", "o", " ", "s", "u", "c", "h", " ", "f", "i", "l", "e", " ", "o", "r", " ", "d", "i", "r", "e", "c", "t", "o", "r", "y">>
S_NoMatching == <<"N", "o", " ", "m", "a", "t", "c", "h", "i", "n", "g", " ", "p", "r", "o", "c", "e", "s", "s", "e", "s">>
S_successfully == <<"s", "u", "c", "c", "e", "s", "s", "f", "u", "l", "l", "y">>
S_RecordingStarted == <<"R", "e", "c", "o", "r", "d", "i", "n", "g", " ", "s", "t", "a", "r", "t", "e", "d">>
S_NoBooted == <<"N", "o", " ", "b", "o", "o", "t", "e", "d", " ", "s", "i", "m", "u", "l", "a", "t", "o", "r">>
S_timedOut == <<"t", "i", "m", "e", "d", " ", "o", "u", "t">>
S_EACCES == <<"E", "A", "C", "C", "E", "S">>
S_permissionDenied == <<"p", "e", "r", "m", "i", "s", "s", "i", "o", "n", " ", "d", "e", "n", "i", "e", "d">>
S_ENOENT == <<"E", "N", "O", "E", "N", "T">>
S_notFound == <<"n", "o", "t", " ", "f", "o", "u", "n", "d">>
S_commandNotFound == <<"c", "o", "m", "m", "a", "n", "d", " ", "n", "o", "t", " ", "f", "o", "u", "n", "d">>

\* The characters 0x20-0x7E (the grave accent 0x60 has no TLA+ string literal
\* and occurs in no input of the model).
PrintableAscii ==
    LowerAlpha \cup UpperAlpha \cup Digit \cup
    {" ", "!", "\"", "#", "$", "%", "&", "'", "(", ")", "*", "+", ",", "-", ".", "/",
     ":", ";", "<", "=", ">", "?", "@", "[", "\\", "]", "^", "_", "{", "|", "}", "~"}

MaxTextLen == 500

\* the text validator without its length limit
textInputSchema_NoMax(s) ==
    /\ Len(s) >= 1
    /\ \A i \in 1..Len(s) : s[i] \in PrintableAscii

\* z.string().max(500).regex(/^[\x20-\x7E]+$/)
textInputSchema(s) ==
    /\ Len(s) <= MaxTextLen
    /\ Len(s) >= 1
    /\ \A i \in 1..Len(s) : s[i] \in PrintableAscii

\* z.enum([...])
hardwareButtonSchema(s) ==
    s \in {B_home, B_lock, B_volume_up, B_volume_down, B_ringer, B_power, B_home_lock}

\* ----------------------------------------------------------- error reporter
\* The output mode the preAction hook leaves in the environment: "human",
\* "json" (--json: SIM_CLI_FORMAT = json) or "machine" (--machine-readable:
\* SIM_CLI_MACHINE_READABLE = 1 and SIM_CLI_FORMAT = json).
IsJson(fmt) == fmt \in {"json", "machine"}
IsMachineReadable(fmt) == fmt = "machine"

\* The exit code handleError passes to process.exit.
handleError(err) ==
    CASE err.cls = "SimulatorError" -> err.code
      [] err.cls = "ZodError" -> INVALID_ARGUMENTS
      [] OTHER ->
            IF Includes(err.text, S_NoBooted) THEN SIMULATOR_NOT_FOUND
            ELSE IF Includes(err.text, S_timedOut) THEN TIMEOUT
            ELSE IF Includes(err.text, S_EACCES) \/ Includes(err.text, S_permissionDenied)
                 THEN PERMISSION_DENIED
            ELSE IF Includes(err.text, S_ENOENT) \/ Includes(err.text, S_notFound)
                 THEN FILE_NOT_FOUND
            ELSE IF Includes(err.text, S_commandNotFound) THEN COMMAND_NOT_FOUND
            ELSE GENERAL_ERROR

\* What handleError writes before it exits: in JSON mode one object with
\* error, message, code and suggestions on the error stream, otherwise the
\* failure line (followed by the hints and the help pointer).
handleErrorOutput(fmt, err) ==
    IF IsJson(fmt) THEN <<[ch |-> "errorJson", msg |-> err.msg, success |-> FALSE]>>
    ELSE <<[ch |-> "error", msg |-> err.msg, success |-> FALSE]>>

\* ------------------------------------------------------------------ logger
\* What reaches the console.  success() prints outside JSON mode (through the
\* spinner or directly), json() prints only in JSON mode, warn() only outside.
Event(ch, msg, success) == [ch |-> ch, msg |-> msg, success |-> success]
LogSuccess(fmt, msg) == IF ~IsJson(fmt) THEN <<Event("success", msg, TRUE)>> ELSE <<>>
LogWarn(fmt, msg) == IF ~IsJson(fmt) THEN <<Event("warn", msg, FALSE)>> ELSE <<>>
LogJson(fmt, msg, success) == IF IsJson(fmt) THEN <<Event("json", msg, success)>> ELSE <<>>
LogTable(fmt, msg) == IF ~IsJson(fmt) THEN <<Event("table", msg, TRUE)>> ELSE <<>>

\* ---------------------------------------------------------------- handlers
\* The result of one handler call: the processes it spawned in order, the
\* error it threw (NoError when it returned) and what it printed.
\* exit is the code of a process.exit made inside the handler, -1 when the
\* handler returns or throws to the dispatcher.
Done(spawns, out) == [spawns |-> spawns, err |-> NoError, out |-> out, exit |-> -1]
Thrown(spawns, err) == [spawns |-> spawns, err |-> err, out |-> <<>>, exit |-> -1]

\* SimulatorError whose message embeds text captured from a process
SimulatorErrorWith(msg, code, text) ==
    [cls |-> "SimulatorError", code |-> code, msg |-> msg, text |-> text, suggestions |-> <<>>]

\* The common tail of the UI-bridge handlers: run idb, fail on any stderr.
\* the bridge call taking any zero exit for success
RunBridge_IgnoreStderr(pre, args, rr, failMsg, fmt, okMsg) ==
    LET spawns == pre \o <<Blocking("idb", args)>>
    IN  IF rr.kind = "fail" THEN Thrown(spawns, ProcessError(rr.code, rr.text))
        ELSE Done(spawns, LogSuccess(fmt, okMsg) \o LogJson(fmt, okMsg, TRUE))

RunBridge(pre, args, rr, failMsg, fmt, okMsg) ==
    LET spawns == pre \o <<Blocking("idb", args)>>
    IN  IF rr.kind = "fail" THEN Thrown(spawns, ProcessError(rr.code, rr.text))
        ELSE IF rr.stderr # <<>>
             THEN Thrown(spawns, SimulatorErrorWith(failMsg, GENERAL_ERROR, rr.stderr))
             ELSE Done(spawns, LogSuccess(fmt, okMsg) \o LogJson(fmt, okMsg, TRUE))

tap(x, y, duration, device, envDevice, fmt, lr, rr) ==
    LET d == getDeviceId(device, envDevice, lr)
    IN  IF ~d.ok THEN Thrown(d.spawns, d.err)
        ELSE IF Truthy(duration) /\ ~durationSchema(duration[1])
             THEN Thrown(d.spawns, ZodError("Duration must be a positive number"))
             ELSE RunBridge(d.spawns,
                            <<T_ui, T_tap, T_udid, d.id, T_json>>
                              \o (IF Truthy(duration) THEN <<T_duration, duration[1]>> ELSE <<>>)
                              \o <<T_sep, NumToString(x), NumToString(y)>>,
                            rr, "Tap failed", fmt, "Tapped")

type(text, device, envDevice, fmt, lr, rr) ==
    IF ~textInputSchema(text)
    THEN Thrown(<<>>, ZodError("Text must contain only ASCII printable characters"))
    ELSE LET d == getDeviceId(device, envDevice, lr)
         IN  IF ~d.ok THEN Thrown(d.spawns, d.err)
             ELSE RunBridge(d.spawns, <<T_ui, T_text, T_udid, d.id, T_sep, text>>,
                            rr, "Type failed", fmt, "Typed")

\* A JavaScript value that is a number or a string: options.delta is a number
\* for a caller of swipe() and the option's string for the swipe command
JsNum(n) == [t |-> "number", n |-> n, s |-> <<>>]
JsStr(s) == [t |-> "string", n |-> 0, s |-> s]
JsTruthy(v) == IF v.t = "number" THEN v.n # 0 ELSE v.s # <<>>
JsString(v) == IF v.t = "number" THEN NumToString(v.n) ELSE v.s

\* swipe pushing the delta option before the duration option
swipe_DeltaBeforeDuration(x1, y1, x2, y2, duration, delta, device, envDevice, fmt, lr, rr) ==
    LET d == getDeviceId(device, envDevice, lr)
    IN  IF ~d.ok THEN Thrown(d.spawns, d.err)
        ELSE IF Truthy(duration) /\ ~durationSchema(duration[1])
             THEN Thrown(d.spawns, ZodError("Duration must be a positive number"))
             ELSE RunBridge(d.spawns,
                            <<T_ui, T_swipe, T_udid, d.id, T_json>>
                              \o (IF delta # None /\ JsTruthy(delta[1])
                                  THEN <<T_delta, JsString(delta[1])>> ELSE <<>>)
                              \o (IF Truthy(duration) THEN <<T_duration, duration[1]>> ELSE <<>>)
                              \o <<T_sep, NumToString(x1), NumToString(y1),
                                   NumToString(x2), NumToString(y2)>>,
                            rr, "Swipe failed", fmt, "Swiped")

swipe(x1, y1, x2, y2, duration, delta, device, envDevice, fmt, lr, rr) ==
    LET d == getDeviceId(device, envDevice, lr)
    IN  IF ~d.ok THEN Thrown(d.spawns, d.err)
        ELSE IF Truthy(duration) /\ ~durationSchema(duration[1])
             THEN Thrown(d.spawns, ZodError("Duration must be a positive number"))
             ELSE RunBridge(d.spawns,
                            <<T_ui, T_swipe, T_udid, d.id, T_json>>
                              \o (IF Truthy(duration) THEN <<T_duration, duration[1]>> ELSE <<>>)
                              \o (IF delta # None /\ JsTruthy(delta[1])
                                  THEN <<T_delta, JsString(delta[1])>> ELSE <<>>)
                              \o <<T_sep, NumToString(x1), NumToString(y1),
                                   NumToString(x2), NumToString(y2)>>,
                            rr, "Swipe failed", fmt, "Swiped")

buttonMap(b) ==
    CASE b = B_home -> T_HOME
      [] b = B_lock -> T_LOCK
      [] b = B_power -> T_LOCK
      [] b = B_volume_up -> T_VOLUME_UP
      [] b = B_volume_down -> T_VOLUME_DOWN
      [] b = B_ringer -> T_RINGER

\* press validating the name as typed, without lower-casing it
press_CaseSensitive(button, device, envDevice, fmt, lr, rr) ==
    LET b == button
    IN  IF ~hardwareButtonSchema(b) THEN Thrown(<<>>, ZodError("Invalid enum value"))
        ELSE LET d == getDeviceId(device, envDevice, lr)
             IN  IF ~d.ok THEN Thrown(d.spawns, d.err)
                 ELSE IF Includes(b, <<"+">>)
                      THEN LET spawns == d.spawns \o
                                   <<Blocking("xcrun", <<T_simctl, T_io, d.id, T_screenshot, T_typePng>>)>>
                           IN  IF rr.kind = "fail"
                               THEN Thrown(spawns, ProcessError(rr.code, rr.text))
                               ELSE Done(spawns, LogSuccess(fmt, "Screenshot gesture performed")
                                                   \o LogJson(fmt, "press", TRUE))
                      ELSE LET spawns == d.spawns \o
                                   <<Blocking("idb", <<T_ui, T_button, T_udid, d.id, T_sep, buttonMap(b)>>)>>
                           IN  IF rr.kind = "fail"
                               THEN Thrown(spawns, ProcessError(rr.code, rr.text))
                               ELSE Done(spawns, LogSuccess(fmt, "Pressed button")
                                                   \o LogJson(fmt, "press", TRUE))

press(button, device, envDevice, fmt, lr, rr) ==
    LET b == ToLowerCase(button)
    IN  IF ~hardwareButtonSchema(b) THEN Thrown(<<>>, ZodError("Invalid enum value"))
        ELSE LET d == getDeviceId(device, envDevice, lr)
             IN  IF ~d.ok THEN Thrown(d.spawns, d.err)
                 ELSE IF Includes(b, <<"+">>)
                      THEN LET spawns == d.spawns \o
                                   <<Blocking("xcrun", <<T_simctl, T_io, d.id, T_screenshot, T_typePng>>)>>
                           IN  IF rr.kind = "fail"
                               THEN Thrown(spawns, ProcessError(rr.code, rr.text))
                               ELSE Done(spawns, LogSuccess(fmt, "Screenshot gesture performed")
                                                   \o LogJson(fmt, "press", TRUE))
                      ELSE LET spawns == d.spawns \o
                                   <<Blocking("idb", <<T_ui, T_button, T_udid, d.id, T_sep, buttonMap(b)>>)>>
                           IN  IF rr.kind = "fail"
                               THEN Thrown(spawns, ProcessError(rr.code, rr.text))
                               ELSE Done(spawns, LogSuccess(fmt, "Pressed button")
                                                   \o LogJson(fmt, "press", TRUE))

\* fs.accessSync / fs.statSync().isDirectory() (src/utils/paths) on the model's
\* file system: the set of existing paths and the directories among them
fileExists(p, files) == p \in files
isDirectory(p, dirs) == p \in dirs

install(appPath, device, envDevice, files, dirs, fmt, lr, rr) ==
    LET d == getDeviceId(device, envDevice, lr)
        absolutePath == PathResolve(appPath)
        ext == ToLowerCase(ExtName(absolutePath))
        spawns == d.spawns \o <<Blocking("xcrun", <<T_simctl, T_install, d.id, absolutePath>>)>>
        invoke ==
            IF rr.kind = "fail" THEN Thrown(spawns, ProcessError(rr.code, rr.text))
            ELSE IF rr.stderr # <<>> /\ ~Includes(rr.stderr, S_successfully)
                 THEN Thrown(spawns, SimulatorErrorWith("Installation failed", GENERAL_ERROR, rr.stderr))
                 ELSE Done(spawns, LogSuccess(fmt, "App installed successfully")
                                     \o LogJson(fmt, "install", TRUE))
    IN  IF ~d.ok THEN Thrown(d.spawns, d.err)
        ELSE IF ~fileExists(absolutePath, files)
             THEN Thrown(d.spawns, SimulatorError("App bundle not found", FILE_NOT_FOUND))
             ELSE IF ext # EXT_APP /\ ext # EXT_IPA
                  THEN IF ext = EXT_APP /\ ~isDirectory(absolutePath, dirs)
                       THEN Thrown(d.spawns, SimulatorError(
                                "Invalid app bundle: .app should be a directory", INVALID_ARGUMENTS))
                       ELSE IF ext # EXT_APP
                            THEN Thrown(d.spawns, SimulatorError(
                                     "Invalid app bundle: must be .app directory or .ipa file",
                                     INVALID_ARGUMENTS))
                            ELSE invoke
                  ELSE invoke

\* The catch block of launch / uninstall: an error whose message contains the
\* marker becomes "App not found"
Remap(r, marker) ==
    IF r.err.cls # "none" /\ Includes(r.err.text, marker)
    THEN Thrown(r.spawns, SimulatorError("App not found", GENERAL_ERROR))
    ELSE r

launch(bundleId, terminate, device, envDevice, fmt, lr, rr) ==
    IF ~bundleIdSchema(bundleId) THEN Thrown(<<>>, ZodError("Invalid bundle ID format"))
    ELSE LET d == getDeviceId(device, envDevice, lr)
             args == <<T_simctl, T_launch>>
                       \o (IF terminate THEN <<T_terminate>> ELSE <<>>)
                       \o <<d.id, bundleId>>
             spawns == d.spawns \o <<Blocking("xcrun", args)>>
         IN  IF ~d.ok THEN Thrown(d.spawns, d.err)
             ELSE Remap(IF rr.kind = "fail" THEN Thrown(spawns, ProcessError(rr.code, rr.text))
                        ELSE IF rr.stderr # <<>> /\ ~Includes(rr.stderr, S_successfully)
                             THEN Thrown(spawns, SimulatorErrorWith("Launch failed", GENERAL_ERROR, rr.stderr))
                             ELSE Done(spawns, LogSuccess(fmt, "App launched")
                                                 \o LogJson(fmt, "launch", TRUE)),
                        S_UnableToFind)

uninstall(bundleId, device, envDevice, fmt, lr, rr) ==
    IF ~bundleIdSchema(bundleId) THEN Thrown(<<>>, ZodError("Invalid bundle ID format"))
    ELSE LET d == getDeviceId(device, envDevice, lr)
             spawns == d.spawns \o <<Blocking("xcrun", <<T_simctl, T_uninstall, d.id, bundleId>>)>>
         IN  IF ~d.ok THEN Thrown(d.spawns, d.err)
             ELSE Remap(IF rr.kind = "fail" THEN Thrown(spawns, ProcessError(rr.code, rr.text))
                        ELSE IF rr.stderr # <<>> /\ ~Includes(rr.stderr, S_successfully)
                             THEN Thrown(spawns, SimulatorErrorWith("Uninstall failed", GENERAL_ERROR, rr.stderr))
                             ELSE Done(spawns, LogSuccess(fmt, "App uninstalled successfully")
                                                 \o LogJson(fmt, "uninstall", TRUE)),
                        S_NoSuchFile)

\* The matches of /CFBundleIdentifier\s*=\s*"([^"]+)"/g in the output of
\* `simctl listapps`, for output that writes the key as `CFBundleIdentifier = "`
BundleIdMatches(stdout) ==
    {i \in 1..Len(stdout) :
        LET k == i + Len(S_BundleKey)
        IN  /\ k <= Len(stdout)
            /\ SubSeq(stdout, i, k - 1) = S_BundleKey
            /\ stdout[k] # "\""
            /\ \E j \in (k + 1)..Len(stdout) : stdout[j] = "\""}

list(device, envDevice, fmt, lr, rr) ==
    LET d == getDeviceId(device, envDevice, lr)
        spawns == d.spawns \o <<Blocking("xcrun", <<T_simctl, T_listapps, d.id>>)>>
    IN  IF ~d.ok THEN Thrown(d.spawns, d.err)
        ELSE IF rr.kind = "fail" THEN Thrown(spawns, ProcessError(rr.code, rr.text))
        ELSE IF rr.stderr # <<>>
             THEN Thrown(spawns, SimulatorErrorWith("Failed to list apps", GENERAL_ERROR, rr.stderr))
        ELSE IF Cardinality(BundleIdMatches(rr.stdout)) = 0
             THEN Done(spawns, LogWarn(fmt, "No apps installed on this simulator"))
             ELSE Done(spawns, LogSuccess(fmt, "Found installed app(s)")
                                 \o LogJson(fmt, "apps", TRUE)
                                 \o LogTable(fmt, "apps"))

\* A JSON object is the sequence of its entries in key order; the value of an
\* entry is None when it is undefined. JSON.stringify leaves the undefined
\* entries out; JSON.parse of a text gives the entries the text has.
Entry(key, value) == [key |-> key, value |-> value]
JsonStringify_KeepUndefined(obj) == obj
JsonStringify(obj) == SelectSeq(obj, LAMBDA e : e.value # None)

TitleHi == <<"H", "i">>
BodyB == <<"B", "o", "d", "y", " ", "t", "e", "x", "t">>
T_tmpDir == <<"/", "t", "m", "p", "/", "s", "i", "m", "-", "c", "l", "i">>

\* A notification payload {aps: {alert}}: alert is None when aps has no alert key
Payload(alert) == [alert |-> alert]
PayloadText(payload) ==
    Payload(IF payload.alert = None THEN None ELSE Some(JsonStringify(payload.alert[1])))

\* NotificationOptions: title, subtitle, body are strings or undefined; payload
\* is the parsed content of the --payload text; file is the file named by
\* --file (found or not, and its parsed content)
NotificationOptions(title, subtitle, body, payload, file) ==
    [title |-> title, subtitle |-> subtitle, body |-> body, payload |-> payload, file |-> file]
PayloadFile(found, payload) == [found |-> found, json |-> payload]

\* The payload sendNotification builds from the options it is given
buildPayload(options) ==
    IF options.file # None THEN options.file[1].json
    ELSE IF options.payload # None THEN options.payload[1]
    ELSE Payload(IF Truthy(options.title) \/ Truthy(options.body) \/ Truthy(options.subtitle)
                 THEN Some(<<Entry("title", options.title),
                             Entry("subtitle", options.subtitle),
                             Entry("body", options.body)>>)
                 ELSE None)

\* File-system operations of a handler, in the order they are made
FsOp(op, path) == [op |-> op, path |-> path]
RECURSIVE ApplyFs(_, _)
ApplyFs(fs, ops) ==
    IF ops = <<>> THEN fs
    ELSE ApplyFs([files |-> IF ops[1].op = "write" THEN fs.files \cup {ops[1].path}
                            ELSE IF ops[1].op = "unlink" THEN fs.files \ {ops[1].path}
                            ELSE IF ops[1].op = "rmdir"
                            THEN {f \in fs.files : ~(Len(f) > Len(ops[1].path)
                                                     /\ SubSeq(f, 1, Len(ops[1].path)) = ops[1].path)}
                            ELSE fs.files,
                  dirs |-> IF ops[1].op = "mkdir" THEN fs.dirs \cup {ops[1].path}
                           ELSE IF ops[1].op = "rmdir" THEN fs.dirs \ {ops[1].path}
                           ELSE fs.dirs],
                 Tail(ops))

\* sendNotification leaving the scratch file behind when the push fails
sendNotification_NoCleanupOnFailure(bundleId, options, machineReadable, envDevice, fmt, lr, rr) ==
    LET d == getDeviceId(None, envDevice, lr)
        spawns == d.spawns \o <<Blocking("xcrun", <<T_simctl, T_push, d.id, bundleId, T_tmpFile>>)>>
        written == [fs |-> <<FsOp("mkdir", T_tmpDir), FsOp("write", T_tmpFile)>>,
                    written |-> Some(PayloadText(buildPayload(options)))]
        nothing == [fs |-> <<>>, written |-> None]
        r == IF ~bundleIdSchema(bundleId)
             THEN Thrown(<<>>, ZodError("Invalid bundle ID format")) @@ nothing
             ELSE IF ~d.ok THEN Thrown(d.spawns, d.err) @@ nothing
             ELSE IF options.file # None /\ ~options.file[1].found
             THEN Thrown(d.spawns, ProcessError(-1, ErrNoSuchFile)) @@ nothing
             ELSE IF rr.kind = "fail"
             THEN Thrown(spawns, ProcessError(rr.code, rr.text)) @@ written
             ELSE Done(spawns, IF machineReadable \/ IsMachineReadable(fmt)
                               THEN <<Event("console", "send_notification", TRUE)>>
                               ELSE LogSuccess(fmt, "Push notification sent successfully"))
                  @@ [written EXCEPT !.fs = @ \o <<FsOp("unlink", T_tmpFile)>>]
    IN  IF r.err.cls # "none" /\ (machineReadable \/ IsMachineReadable(fmt))
        THEN [r EXCEPT !.out = <<Event("console", "send_notification", FALSE)>>, !.exit = 1]
        ELSE r

\* sendNotification: validate, resolve (no explicit device), build the payload,
\* write it to the scratch file, push, delete the scratch file (after the push
\* returned, and in the catch block when it failed). fs is the sequence of
\* file-system operations made, written the payload text written. In
\* machine-readable mode a failure is printed and the process exits with 1.
sendNotification(bundleId, options, machineReadable, envDevice, fmt, lr, rr) ==
    LET d == getDeviceId(None, envDevice, lr)
        spawns == d.spawns \o <<Blocking("xcrun", <<T_simctl, T_push, d.id, bundleId, T_tmpFile>>)>>
        written == [fs |-> <<FsOp("mkdir", T_tmpDir), FsOp("write", T_tmpFile),
                             FsOp("unlink", T_tmpFile)>>,
                    written |-> Some(PayloadText(buildPayload(options)))]
        nothing == [fs |-> <<>>, written |-> None]
        r == IF ~bundleIdSchema(bundleId)
             THEN Thrown(<<>>, ZodError("Invalid bundle ID format")) @@ nothing
             ELSE IF ~d.ok THEN Thrown(d.spawns, d.err) @@ nothing
             ELSE IF options.file # None /\ ~options.file[1].found
             THEN Thrown(d.spawns, ProcessError(-1, ErrNoSuchFile)) @@ nothing
             ELSE IF rr.kind = "fail"
             THEN Thrown(spawns, ProcessError(rr.code, rr.text)) @@ written
             ELSE Done(spawns, IF machineReadable \/ IsMachineReadable(fmt)
                               THEN <<Event("console", "send_notification", TRUE)>>
                               ELSE LogSuccess(fmt, "Push notification sent successfully"))
                  @@ written
    IN  IF r.err.cls # "none" /\ (machineReadable \/ IsMachineReadable(fmt))
        THEN [r EXCEPT !.out = <<Event("console", "send_notification", FALSE)>>, !.exit = 1]
        ELSE r

\* ------------------------------------------------------- simulator list
UdidC == <<"1", "1", "1", "1", "1", "1", "1", "1", "-", "2", "2", "2", "2", "-", "3", "3", "3", "3", "-", "4", "4", "4", "4", "-", "5", "5", "5", "5", "5", "5", "5", "5", "5", "5", "5", "5">>
UdidD == <<"A", "A", "A", "A", "A", "A", "A", "A", "-", "B", "B", "B", "B", "-", "C", "C", "C", "C", "-", "D", "D", "D", "D", "-", "E", "E", "E", "E", "E", "E", "E", "E", "E", "E", "E", "E">>
RuntimeIos17 == <<"S", "i", "m", "R", "u", "n", "t", "i", "m", "e", ".", "i", "O", "S", "-", "1", "7", "-", "0">>
RuntimeIos16 == <<"S", "i", "m", "R", "u", "n", "t", "i", "m", "e", ".", "i", "O", "S", "-", "1", "6", "-", "4">>
NameIphone15 == <<"i", "P", "h", "o", "n", "e", " ", "1", "5">>
NameIpadAir == <<"i", "P", "a", "d", " ", "A", "i", "r">>
NameIphone14 == <<"i", "P", "h", "o", "n", "e", " ", "1", "4">>
NameIpadMini == <<"i", "P", "a", "d", " ", "m", "i", "n", "i">>
FilterIos17 == <<"1", "7">>
FilterIosLower == <<"i", "o", "s", "-", "1", "7">>
FilterIphone == <<"i", "P", "h", "o", "n", "e">>
FilterIphoneLower == <<"i", "p", "h", "o", "n", "e">>

\* The tool's device list: runtimes in the order of the JSON object's keys,
\* each with its devices in order
SimDevice(name, udid, state) == [name |-> name, udid |-> udid, state |-> state]
Runtime(id, deviceList) == [id |-> id, deviceList |-> deviceList]
ToolList ==
    <<Runtime(RuntimeIos17, <<SimDevice(NameIphone15, UdidA, "Booted"),
                              SimDevice(NameIpadAir, UdidB, "Shutdown")>>),
      Runtime(RuntimeIos16, <<SimDevice(NameIphone14, UdidC, "Shutdown"),
                              SimDevice(NameIpadMini, UdidD, "Booted")>>)>>
SimListOk(runtimes) == [kind |-> "ok", runtimes |-> runtimes]
SimListResults ==
    {SimListOk(ToolList), SimListOk(<<>>),
     [kind |-> "stderr", runtimes |-> <<>>], [kind |-> "badjson", runtimes |-> <<>>],
     [kind |-> "throw", runtimes |-> <<>>]}

\* The options of listDevices: the two substrings are strings or undefined
ListOptions(iosVersion, deviceType, bootedOnly) ==
    [iosVersion |-> iosVersion, deviceType |-> deviceType, bootedOnly |-> bootedOnly]

\* listDevices: the runtime is skipped / the device is skipped
runtimeKept(options, runtime) ==
    ~(Truthy(options.iosVersion) /\ ~Includes(runtime, options.iosVersion[1]))

\* a device filter that keeps a device matching any one of the filters
deviceKept_AnyFilter(options, device) ==
    \/ ~Truthy(options.deviceType) /\ ~options.bootedOnly
    \/ Truthy(options.deviceType) /\ Includes(device.name, options.deviceType[1])
    \/ options.bootedOnly /\ device.state = "Booted"

deviceKept(options, device) ==
    /\ ~(Truthy(options.deviceType) /\ ~Includes(device.name, options.deviceType[1]))
    /\ ~(options.bootedOnly /\ device.state # "Booted")

\* listDevices: the inner loop over one runtime's devices
RECURSIVE pushDevices(_, _, _, _)
pushDevices(options, runtime, deviceList, allDevices) ==
    IF deviceList = <<>> THEN allDevices
    ELSE pushDevices(options, runtime, Tail(deviceList),
                     IF deviceKept(options, Head(deviceList))
                     THEN Append(allDevices, Head(deviceList) @@ [runtimeIdentifier |-> runtime])
                     ELSE allDevices)

\* listDevices: the outer loop over the runtimes
RECURSIVE pushRuntimes(_, _, _)
pushRuntimes(options, runtimes, allDevices) ==
    IF runtimes = <<>> THEN allDevices
    ELSE pushRuntimes(options, Tail(runtimes),
                      IF runtimeKept(options, Head(runtimes).id)
                      THEN pushDevices(options, Head(runtimes).id, Head(runtimes).deviceList,
                                       allDevices)
                      ELSE allDevices)

\* listDevices(options) for a result lr of the device query
listDevices(options, lr) ==
    CASE lr.kind = "throw" -> [ok |-> FALSE, devices |-> <<>>, err |-> ProcessError(1, ErrBoom)]
      [] lr.kind = "stderr" ->
            [ok |-> FALSE, devices |-> <<>>,
             err |-> SimulatorError("Failed to list devices", GENERAL_ERROR)]
      [] lr.kind = "badjson" ->
            [ok |-> FALSE, devices |-> <<>>,
             err |-> SimulatorError("Failed to parse device list", GENERAL_ERROR)]
      [] OTHER -> [ok |-> TRUE, devices |-> pushRuntimes(options, lr.runtimes, <<>>), err |-> NoError]

\* list(options) of the simulator commands: a filter is passed on when its
\* option is truthy
listSimulators(ios, deviceType, booted, fmt, lr) ==
    LET r == listDevices(ListOptions(IF Truthy(ios) THEN ios ELSE None,
                                     IF Truthy(deviceType) THEN deviceType ELSE None,
                                     booted), lr)
        spawns == <<Blocking("xcrun", ListVector)>>
    IN  IF ~r.ok THEN Thrown(spawns, r.err)
        ELSE Done(spawns, IF fmt \in {"json", "machine"} THEN LogJson(fmt, "devices", TRUE)
                          ELSE IF r.devices = <<>>
                          THEN LogWarn(fmt, "No simulators found matching the criteria")
                          ELSE LogSuccess(fmt, "Found simulators") \o LogTable(fmt, "devices"))

DefaultDir == <<"/", "h", "/", "D", "o", "w", "n", "l", "o", "a", "d", "s">>
TimestampedName == <<"r", "e", "c", "o", "r", "d", "i", "n", "g", "_", "2", "0", "2", "4", "-", "0", "1", "-", "1", "5", "_", "1", "0", "-", "3", "0", "-", "4", "5", "-", "1", "2", "3", ".", "m", "p", "4">>
RecRel == <<"c", ".", "m", "p", "4">>

\* resolveFilePath (src/utils/paths): absolute paths unchanged, relative ones
\* placed in the default output directory
resolveFilePath(p) == IF IsAbsolute(p) THEN p ELSE DefaultDir \o <<"/">> \o p

\* generateTimestampedFilename('recording', 'mp4') at one fixed instant
generateTimestampedFilename == TimestampedName

\* killProcess rethrowing every failure of the pkill run
killProcess_Rethrow(kr) ==
    IF kr.kind = "fail" THEN ProcessError(kr.code, kr.text) ELSE NoError

\* killProcess: what it throws (NoError when it returns) for a result of
\* run('pkill', ['-SIGINT', '-f', pattern])
killProcess(kr) ==
    IF kr.kind = "fail" /\ kr.code # 1 THEN ProcessError(kr.code, kr.text) ELSE NoError

KillVector == <<T_SIGINT, T_f, T_pattern>>

\* The argument vector of record()
RecordVector(deviceId, codec, force, outputPath) ==
    <<T_simctl, T_io, deviceId, T_recordVideo>>
      \o (IF codec = "h264" THEN <<T_codecH264>> ELSE IF codec = "hevc" THEN <<T_codecHevc>> ELSE <<>>)
      \o (IF force THEN <<T_force>> ELSE <<>>)
      \o <<T_sep, outputPath>>

\* ------------------------------------------------------------------- state
VARIABLES
    envDevice,      \* process.env.SIM_CLI_DEVICE (optional string)
    format,         \* the output mode: "human", "json" or "machine"
    recordingPath,  \* process.env.SIM_CLI_RECORDING_PATH (optional string)
    recordingPid,   \* process.env.SIM_CLI_RECORDING_PID (optional number)
    files,          \* paths that exist in the file system
    dirs,           \* the directories among them
    procs,          \* live recordVideo processes this program spawned
    nextPid,        \* the pid the next spawned background process gets
    pc,             \* "idle", or "waiting" inside record()'s start wait
    rec,            \* locals of the record() call in flight
    inv,            \* the last handler invocation: inputs, spawns, outcome
    count,          \* handler invocations started so far
    resolved,       \* results of the direct getDeviceId calls, oldest first
    calls,          \* results of the direct executor calls, oldest first
    view            \* the view() call: position, blocking calls started and in flight

vars == <<envDevice, format, recordingPath, recordingPid, files, dirs, procs,
          nextPid, pc, rec, inv, count, resolved, calls, view>>

world == <<envDevice, format, files, dirs>>

\* No view() call yet. pc is the await the call is suspended at, started the
\* blocking calls it has started (with their results), inflight the indices of
\* those that have not returned, tmpDir the scratch directory it made.
NoView ==
    [pc |-> "idle", inflight |-> {}, started |-> <<>>, tmpDir |-> None,
     deviceId |-> <<>>, fmt |-> <<>>, output |-> None]

NoRec == [pid |-> 0, path |-> <<>>, deviceId |-> <<>>, spawns |-> <<>>,
          recordingStarted |-> FALSE, errorOutput |-> <<>>, killed |-> FALSE,
          interval |-> FALSE, ceiling |-> FALSE, polls |-> 0, chunks |-> 0]

\* Which source getDeviceId takes the device from
DevSrc(device) ==
    IF Truthy(device) THEN "explicit" ELSE IF Truthy(envDevice) THEN "env" ELSE "query"

\* Some device value given to the invocation is not a valid UDID
BadDevice(device) ==
    \/ Truthy(device) /\ ~udidSchema(device[1])
    \/ ~Truthy(device) /\ Truthy(envDevice) /\ ~udidSchema(envDevice[1])

\* The record of an invocation: the handler's result r, the exit code the
\* dispatcher's handleError gives it, what handleError printed (reported,
\* empty when the handler returned or exited by itself), and the inputs in g
\* (invalid: some user-supplied field fails its validator; userVals: the
\* positional user values; devSrc: where the device comes from; done: the
\* handler has ended)
Invocation(cmd, r, g) ==
    [cmd |-> cmd, spawns |-> r.spawns, err |-> r.err, out |-> r.out,
     exit |-> IF r.exit # -1 THEN r.exit
              ELSE IF r.err.cls = "none" THEN SUCCESS ELSE handleError(r.err),
     reported |-> IF r.exit = -1 /\ r.err.cls # "none"
                  THEN handleErrorOutput(format, r.err) ELSE <<>>] @@ g

NoInput == [invalid |-> FALSE, userVals |-> {}, devSrc |-> "none", device |-> None, done |-> TRUE]

Init ==
    /\ envDevice \in {None, Some(UdidA), Some(UdidShort), Some(<<>>)}
    /\ format \in {"human", "json", "machine"}
    /\ recordingPath = None
    /\ recordingPid = None
    /\ files = {PathApp, PathAppFile, PathIpa, PathZip, PathResolve(PathRel),
                PathResolve(PathDash), RecA}
    /\ dirs = {PathApp, PathResolve(PathRel), PathResolve(PathDash)}
    /\ procs = {}
    /\ nextPid = 1
    /\ pc = "idle"
    /\ rec = NoRec
    /\ inv = Invocation("none", Done(<<>>, <<>>), NoInput) @@ [humanExit |-> SUCCESS]
    /\ count = 0
    /\ resolved = <<>>
    /\ calls = <<>>
    /\ view = NoView

\* A recording command may start / a one-step handler may be called
CanStart == pc = "idle" /\ count < MaxInvocations
CanCall == pc = "idle" /\ count < MaxHandlerCalls

\* The --timeout flag: absent, or a number of seconds
TimeoutFlags == {None, Some(5), Some(60)}

\* A handler that runs to its end in one step and touches nothing but inv.
\* H(fmt) is the handler's result on these inputs in output mode fmt;
\* humanExit is the exit code the same call has in human mode.
\* timeoutFlag is the value of the global --timeout flag, which the preAction
\* hook stores in SIM_CLI_TIMEOUT before the handler runs.
Finish(cmd, H(_), g) ==
    /\ \E timeoutFlag \in TimeoutFlags :
          inv' = Invocation(cmd, H(format), g)
                   @@ [humanExit |-> Invocation(cmd, H("human"), g).exit,
                       timeoutFlag |-> timeoutFlag]
    /\ count' = count + 1
    /\ UNCHANGED <<envDevice, format, recordingPath, recordingPid, files, dirs,
                   procs, nextPid, pc, rec, resolved, calls, view>>

Devices == {None, Some(UdidB), Some(UdidUnderscore)}
Durations == {None, Some(DurHalf), Some(DurNeg), Some(DurWord)}
Coords == {0, 100}

Input(invalid, userVals, device) ==
    [invalid |-> invalid \/ BadDevice(device), userVals |-> userVals,
     devSrc |-> DevSrc(device), device |-> device, done |-> TRUE]

\* Messages of process errors, one for each line of the reporter's table
ReporterInputs ==
    {RunFail(127, ErrCommandNotFound), RunFail(-1, ErrTimedOut), RunFail(-1, ErrEACCES),
     RunFail(1, ErrPermission), RunFail(-1, ErrENOENT), RunFail(1, ErrNoBootedSimulator)}

\* The result rr of the bridge call of a handler result r, when r made one
BridgeResult(r, rr) ==
    IF r.spawns # <<>> /\ r.spawns[Len(r.spawns)].bin = "idb" THEN Some(rr) ELSE None

Tap ==
    /\ CanCall
    /\ \E x \in Coords, duration \in Durations, device \in Devices,
          lr \in HandlerListResults, rr \in ToolResults \cup ReporterInputs :
          Finish("tap", LAMBDA f : tap(x, 200, duration, device, envDevice, f, lr, rr),
                 Input(Truthy(duration) /\ ~durationSchema(duration[1]),
                       {NumToString(x), NumToString(200)},
                       device)
                   @@ [coords |-> <<x, 200>>, duration |-> duration,
                       delta |-> None, deltaGiven |-> FALSE,
                       deviceId |-> getDeviceId(device, envDevice, lr).id,
                       bridge |-> BridgeResult(tap(x, 200, duration, device, envDevice,
                                                   format, lr, rr), rr)])

\* Texts to type: plain, starting with a dash, holding a control character,
\* empty, holding a non-ASCII character, of the greatest length allowed, and
\* one character longer
TextLongest == [i \in 1..MaxTextLen |-> "a"]
TextTooLong == [i \in 1..(MaxTextLen + 1) |-> "a"]
Texts == {TextHello, TextFlag, TextTab, TextEmpty, TextAccent, TextLongest, TextTooLong}

Type ==
    /\ CanCall
    /\ \E text \in Texts, device \in Devices,
          lr \in HandlerListResults, rr \in ToolResults :
          Finish("type", LAMBDA f : type(text, device, envDevice, f, lr, rr),
                 Input(~textInputSchema(text), {text}, device)
                   @@ [text |-> text,
                       bridge |-> BridgeResult(type(text, device, envDevice, format, lr, rr), rr)])

\* The delta a swipe gets: none or a number from a caller of swipe(); from the
\* swipe command the string of --delta, which defaults to "1" when the user
\* gives none
Deltas ==
    {[given |-> FALSE, value |-> None],
     [given |-> TRUE, value |-> Some(JsNum(10))],
     [given |-> TRUE, value |-> Some(JsNum(0))],
     [given |-> TRUE, value |-> Some(JsStr(DeltaTen))],
     [given |-> FALSE, value |-> Some(JsStr(DeltaOne))]}

Swipe ==
    /\ CanCall
    /\ \E duration \in {None, Some(DurHalf), Some(DurDot), Some(<<>>)}, delta \in Deltas,
          device \in Devices, lr \in HandlerListResults, rr \in ToolResults :
          Finish("swipe",
                 LAMBDA f : swipe(100, 500, 100, 200, duration, delta.value, device,
                                  envDevice, f, lr, rr),
                 Input(Truthy(duration) /\ ~durationSchema(duration[1]),
                       {NumToString(100), NumToString(500), NumToString(200)},
                       device)
                   @@ [coords |-> <<100, 500, 100, 200>>, duration |-> duration,
                       delta |-> delta.value, deltaGiven |-> delta.given,
                       deviceId |-> getDeviceId(device, envDevice, lr).id,
                       bridge |-> BridgeResult(swipe(100, 500, 100, 200, duration, delta.value,
                                                     device, envDevice, format, lr, rr), rr)])

Buttons ==
    {B_home, ButtonHOME, B_lock, B_power, B_volume_up, B_volume_down, B_ringer,
     B_home_lock, ButtonBack, ButtonHomePower}

Press ==
    /\ CanCall
    /\ \E button \in Buttons,
          device \in Devices, lr \in HandlerListResults, rr \in {RunOk, RunFail(1, ErrBoom)} :
          Finish("press", LAMBDA f : press(button, device, envDevice, f, lr, rr),
                 Input(~hardwareButtonSchema(ToLowerCase(button)), {}, device)
                   @@ [button |-> button,
                       deviceId |-> getDeviceId(device, envDevice, lr).id])

Bundles == {BundleGood, BundleFlag, BundleSpace}

Launch ==
    /\ CanCall
    /\ \E bundleId \in Bundles, terminate \in BOOLEAN, device \in Devices,
          lr \in HandlerListResults, rr \in ToolResults :
          Finish("launch", LAMBDA f : launch(bundleId, terminate, device, envDevice, f, lr, rr),
                 Input(~bundleIdSchema(bundleId), {bundleId}, device))

Uninstall ==
    /\ CanCall
    /\ \E bundleId \in Bundles, device \in Devices, lr \in HandlerListResults, rr \in ToolResults :
          Finish("uninstall", LAMBDA f : uninstall(bundleId, device, envDevice, f, lr, rr),
                 Input(~bundleIdSchema(bundleId), {bundleId}, device))

\* Hand-written payloads given with --payload or in the file of --file
Payloads ==
    {Payload(None),
     Payload(Some(<<Entry("title", Some(TitleHi))>>)),
     Payload(Some(<<Entry("title", Some(<<>>))>>)),
     Payload(Some(<<Entry("body", Some(BodyB))>>)),
     Payload(Some(<<Entry("title", Some(TitleHi)), Entry("body", Some(BodyB))>>)),
     Payload(Some(<<Entry("title", Some(<<>>)), Entry("body", Some(BodyB))>>))}

\* The options of a notify command: discrete options, or a raw payload, or a file
NotifyOptions ==
    {NotificationOptions(title, None, body, None, None) :
        title \in {None, Some(TitleHi), Some(<<>>)}, body \in {None, Some(BodyB)}}
    \cup {NotificationOptions(None, None, None, Some(p), None) : p \in Payloads}
    \cup {NotificationOptions(None, None, None, None, Some(PayloadFile(TRUE, p))) : p \in Payloads}
    \cup {NotificationOptions(None, None, None, None, Some(PayloadFile(FALSE, Payload(None))))}

\* A handler that runs to its end in one step and makes the file-system
\* operations H(fmt).fs
FinishFiles(cmd, H(_), g) ==
    /\ \E timeoutFlag \in TimeoutFlags :
          inv' = Invocation(cmd, H(format), g)
                   @@ [humanExit |-> Invocation(cmd, H("human"), g).exit,
                       timeoutFlag |-> timeoutFlag,
                       fs |-> H(format).fs]
    /\ files' = ApplyFs([files |-> files, dirs |-> dirs], H(format).fs).files
    /\ dirs' = ApplyFs([files |-> files, dirs |-> dirs], H(format).fs).dirs
    /\ count' = count + 1
    /\ UNCHANGED <<envDevice, format, recordingPath, recordingPid,
                   procs, nextPid, pc, rec, resolved, calls, view>>

\* The notify command: the machineReadable option is the environment flag
Notify ==
    /\ CanCall
    /\ \E bundleId \in Bundles, options \in NotifyOptions,
          lr \in HandlerListResults, rr \in {RunOk, RunFail(1, ErrBoom)} :
          FinishFiles("notify",
                 LAMBDA f : sendNotification(bundleId, options, IsMachineReadable(f),
                                             envDevice, f, lr, rr),
                 Input(~bundleIdSchema(bundleId), {bundleId}, None)
                   @@ [machineReadable |-> IsMachineReadable(format),
                       options |-> options,
                       written |-> sendNotification(bundleId, options, IsMachineReadable(format),
                                                    envDevice, format, lr, rr).written])

AppPaths == {PathApp, PathAppFile, PathIpa, PathZip, PathMissing, PathRel, PathDash}

Install ==
    /\ CanCall
    /\ \E appPath \in AppPaths, device \in Devices, lr \in HandlerListResults, rr \in ToolResults :
          Finish("install",
                 LAMBDA f : install(appPath, device, envDevice, files, dirs, f, lr, rr),
                 Input(FALSE, {PathResolve(appPath)}, device)
                   @@ [path |-> PathResolve(appPath),
                       exists |-> fileExists(PathResolve(appPath), files),
                       isDir |-> isDirectory(PathResolve(appPath), dirs)])

AppList ==
    /\ CanCall
    /\ \E device \in Devices, lr \in HandlerListResults,
          rr \in {RunStdout(AppsNone), RunStdout(AppsOne), RunStderr(ErrBoom), RunFail(1, ErrBoom)} :
          Finish("list", LAMBDA f : list(device, envDevice, f, lr, rr),
                 Input(FALSE, {}, device) @@ [apps |-> Cardinality(BundleIdMatches(rr.stdout))])

\* The list command of the simulators
IosFilters == {None, Some(FilterIos17), Some(FilterIosLower), Some(<<>>)}
TypeFilters == {None, Some(FilterIphone), Some(FilterIphoneLower)}

SimulatorList ==
    /\ CanCall
    /\ \E ios \in IosFilters, deviceType \in TypeFilters, booted \in BOOLEAN,
          lr \in SimListResults :
          Finish("simulators", LAMBDA f : listSimulators(ios, deviceType, booted, f, lr),
                 Input(FALSE, {}, None)
                   @@ [ios |-> ios, deviceType |-> deviceType, booted |-> booted,
                       toolList |-> lr.runtimes,
                       listed |-> listDevices(ListOptions(ios, deviceType, booted), lr)])

\* A direct call of the exported getDeviceId
ResolveDevice ==
    /\ pc = "idle"
    /\ Len(resolved) < MaxResolves
    /\ \E device \in Devices \cup {Some(UdidA), Some(<<>>)}, lr \in ListResults :
          /\ resolved' = resolved
                           \o <<[device |-> device, envDevice |-> envDevice, lr |-> lr,
                                 r |-> getDeviceId(device, envDevice, lr)]>>
          /\ UNCHANGED <<envDevice, format, recordingPath, recordingPid, files, dirs,
                         procs, nextPid, pc, rec, inv, count, calls, view>>

\* record() without the existing-file check
recordPrologue_Unchecked(path, force, codec, device, env, fs, lr) ==
    LET d == getDeviceId(device, env, lr)
        outputPath == resolveFilePath(IF Truthy(path) THEN path[1] ELSE generateTimestampedFilename)
    IN  [proceed |-> d.ok,
         r |-> IF d.ok THEN Done(d.spawns, <<>>) ELSE Thrown(d.spawns, d.err),
         outputPath |-> outputPath, deviceId |-> d.id,
         args |-> IF d.ok THEN RecordVector(d.id, codec, force, outputPath) ELSE <<>>]

\* record() up to the spawn: resolve the device, resolve the output path,
\* refuse an existing file without force, build the vector.  proceed tells
\* whether runBackground is reached; r is the result when it is not.
recordPrologue(path, force, codec, device, env, fs, lr) ==
    LET d == getDeviceId(device, env, lr)
        outputPath == resolveFilePath(IF Truthy(path) THEN path[1] ELSE generateTimestampedFilename)
        base == [proceed |-> FALSE, r |-> Thrown(d.spawns, d.err), outputPath |-> outputPath,
                 deviceId |-> d.id, args |-> <<>>]
    IN  IF ~d.ok THEN base
        ELSE IF fileExists(outputPath, fs) /\ ~force
             THEN [base EXCEPT !.r = Thrown(d.spawns, SimulatorError("File already exists",
                                                                      GENERAL_ERROR))]
             ELSE [base EXCEPT !.proceed = TRUE,
                               !.r = Done(d.spawns, <<>>),
                               !.args = RecordVector(d.id, codec, force, outputPath)]

Alive(pid) == \E p \in procs : p.pid = pid

RecordPaths == {None, Some(RecA), Some(RecB)}

Record ==
    /\ CanStart
    /\ \E path \in RecordPaths, force \in BOOLEAN, codec \in {"none", "hevc"},
          device \in Devices, lr \in HandlerListResults :
          LET p == recordPrologue(path, force, codec, device, envDevice, files, lr)
              g == [done |-> ~p.proceed, path |-> p.outputPath,
                    exists |-> fileExists(p.outputPath, files), force |-> force,
                    recordingPath |-> recordingPath, recordingPid |-> recordingPid,
                    died |-> FALSE, errorOutput |-> <<>>,
                    pid |-> IF p.proceed THEN nextPid ELSE 0]
                     @@ Input(FALSE, {p.outputPath}, device)
          IN  /\ count' = count + 1
              /\ IF p.proceed
                 THEN /\ inv' = Invocation("record",
                                   Done(p.r.spawns \o <<Background("xcrun", p.args)>>, <<>>), g)
                      /\ procs' = procs \cup {[pid |-> nextPid, path |-> p.outputPath]}
                      /\ nextPid' = nextPid + 1
                      /\ rec' = [NoRec EXCEPT !.pid = nextPid, !.path = p.outputPath,
                                              !.deviceId = p.deviceId,
                                              !.interval = TRUE, !.ceiling = TRUE]
                      /\ pc' = "waiting"
                 ELSE /\ inv' = Invocation("record", p.r, g)
                      /\ UNCHANGED <<procs, nextPid, rec, pc>>
              /\ UNCHANGED <<envDevice, format, recordingPath, recordingPid, files, dirs, resolved, calls, view>>


\* The 'data' listener on the recording process's error stream
StderrData ==
    /\ pc = "waiting"
    /\ Alive(rec.pid)
    /\ rec.chunks < MaxStderrChunks
    /\ \E message \in {MsgRecordingStarted, ErrInvalidDevice} :
          rec' = IF Includes(message, S_RecordingStarted)
                 THEN [rec EXCEPT !.recordingStarted = TRUE, !.chunks = @ + 1]
                 ELSE [rec EXCEPT !.errorOutput = @ \o message, !.chunks = @ + 1]
    /\ UNCHANGED <<envDevice, format, recordingPath, recordingPid, files, dirs, procs,
                   nextPid, pc, inv, count, resolved, calls, view>>

\* A recording process ends on its own (bad device, simulator shut down)
ProcessExits ==
    /\ \E p \in procs : procs' = procs \ {p}
    /\ UNCHANGED <<envDevice, format, recordingPath, recordingPid, files, dirs,
                   nextPid, pc, rec, inv, count, resolved, calls, view>>

\* record() writing only the path of the session after its start wait
RecordResolved_PathOnly ==
    /\ recordingPath' = Some(rec.path)
    /\ recordingPid' = recordingPid
    /\ inv' = [inv EXCEPT !.done = TRUE,
                          !.died = ~Alive(rec.pid) /\ ~rec.recordingStarted,
                          !.errorOutput = rec.errorOutput,
                          !.out = LogSuccess(format, "Recording started")
                                    \o LogJson(format, "record", TRUE)]
    /\ pc' = "idle"
    /\ rec' = NoRec

\* record() after its start wait resolved
RecordResolved ==
    /\ recordingPath' = Some(rec.path)
    /\ recordingPid' = Some(rec.pid)
    /\ inv' = [inv EXCEPT !.done = TRUE,
                          !.died = ~Alive(rec.pid) /\ ~rec.recordingStarted,
                          !.errorOutput = rec.errorOutput,
                          !.out = LogSuccess(format, "Recording started")
                                    \o LogJson(format, "record", TRUE)]
    /\ pc' = "idle"
    /\ rec' = NoRec

\* record() after its start wait rejected
RecordRejected ==
    /\ inv' = [inv EXCEPT !.done = TRUE,
                          !.died = ~Alive(rec.pid) /\ ~rec.recordingStarted,
                          !.errorOutput = rec.errorOutput,
                          !.err = SimulatorErrorWith("Recording process terminated unexpectedly",
                                                     GENERAL_ERROR, rec.errorOutput),
                          !.exit = GENERAL_ERROR,
                          !.reported = handleErrorOutput(format,
                              SimulatorErrorWith("Recording process terminated unexpectedly",
                                                 GENERAL_ERROR, rec.errorOutput))]
    /\ pc' = "idle"
    /\ rec' = NoRec
    /\ UNCHANGED <<recordingPath, recordingPid>>

\* One tick of the 100 ms setInterval
Poll ==
    /\ pc = "waiting"
    /\ rec.interval
    /\ IF rec.recordingStarted
       THEN RecordResolved
       ELSE /\ rec.polls < MaxPolls
            /\ rec' = [rec EXCEPT !.polls = @ + 1]
            /\ UNCHANGED <<recordingPath, recordingPid, inv, pc>>
    /\ UNCHANGED <<envDevice, format, files, dirs, procs, nextPid, count, resolved, calls, view>>

\* The 3 s setTimeout
Ceiling ==
    /\ pc = "waiting"
    /\ rec.ceiling
    /\ IF ~rec.recordingStarted
       THEN IF rec.killed THEN RecordRejected ELSE RecordResolved
       ELSE /\ rec' = [rec EXCEPT !.interval = FALSE, !.ceiling = FALSE]
            /\ UNCHANGED <<recordingPath, recordingPid, inv, pc>>
    /\ UNCHANGED <<envDevice, format, files, dirs, procs, nextPid, count, resolved, calls, view>>

\* recordStop() for a result kr of the pkill run: the result and whether the
\* session descriptors are deleted
recordStop(kr, path, fs, fmt) ==
    LET e == killProcess(kr)
        spawns == <<Blocking("pkill", KillVector)>>
    IN  IF e.cls = "none"
        THEN [r |-> Done(spawns,
                         IF Truthy(path) /\ fileExists(path[1], fs)
                         THEN LogSuccess(fmt, "Recording stopped. Video saved")
                                \o LogJson(fmt, "Recording stopped. Video saved", TRUE)
                         ELSE LogSuccess(fmt, "Recording stopped")
                                \o LogJson(fmt, "Recording stopped", TRUE)),
              clear |-> TRUE]
        ELSE IF Includes(e.text, S_NoMatching)
             THEN [r |-> Done(spawns, LogWarn(fmt, "No active recording found")
                                        \o LogJson(fmt, "No active recording found", FALSE)),
                   clear |-> FALSE]
             ELSE [r |-> Thrown(spawns, e), clear |-> FALSE]

\* pkill exits 0 when it signalled a process, 1 when none matched, and can fail
KillResults == {RunOk, RunFail(1, <<>>), RunFail(2, ErrPermission)}

RecordStop ==
    /\ CanStart
    /\ \E kr \in KillResults, finalized \in BOOLEAN :
          /\ kr.kind = "ok" => procs # {}
          /\ (kr.kind = "fail" /\ kr.code = 1) => procs = {}
          /\ kr.kind # "ok" => finalized
          /\ LET killed == kr.kind = "ok"
                 fs == IF killed /\ finalized THEN files \cup {p.path : p \in procs} ELSE files
                 s == recordStop(kr, recordingPath, fs, format)
             IN  /\ procs' = IF killed THEN {} ELSE procs
                 /\ files' = fs
                 /\ recordingPath' = IF s.clear THEN None ELSE recordingPath
                 /\ recordingPid' = IF s.clear THEN None ELSE recordingPid
                 /\ inv' = Invocation("recordStop", s.r,
                              [kill |-> kr, procs |-> procs, recordingPath |-> recordingPath] @@ NoInput)
    /\ count' = count + 1
    /\ UNCHANGED <<envDevice, format, dirs, nextPid, pc, rec, resolved, calls, view>>

\* ------------------------------------------------------------------ view
T_describeAll == <<"d", "e", "s", "c", "r", "i", "b", "e", "-", "a", "l", "l">>
T_z == <<"-", "z">>
T_s == <<"-", "s">>
T_format == <<"f", "o", "r", "m", "a", "t">>
T_formatOptions == <<"f", "o", "r", "m", "a", "t", "O", "p", "t", "i", "o", "n", "s">>
T_out == <<"-", "-", "o", "u", "t">>
T_viewTmp == <<"/", "t", "m", "p", "/", "s", "i", "m", "-", "c", "l", "i", "-">>
FmtJpeg == <<"j", "p", "e", "g">>
FmtPng == <<"p", "n", "g">>
FrameHeight == <<"8", "4", "4">>
FrameWidth == <<"3", "9", "0">>
Quality80 == <<"8", "0">>
OutShot == <<"s", "h", "o", "t", ".", "j", "p", "g">>
ScreenDot == <<"/", "s", "c", "r", "e", "e", "n", ".">>
ErrUnexpectedToken == <<"U", "n", "e", "x", "p", "e", "c", "t", "e", "d", " ", "t", "o", "k", "e", "n", " ", "o", " ", "i", "n", " ", "J", "S", "O", "N", " ", "a", "t", " ", "p", "o", "s", "i", "t", "i", "o", "n", " ", "0">>
ErrCopyFile == <<"E", "N", "O", "E", "N", "T", ":", " ", "n", "o", " ", "s", "u", "c", "h", " ", "f", "i", "l", "e", " ", "o", "r", " ", "d", "i", "r", "e", "c", "t", "o", "r", "y", ",", " ", "c", "o", "p", "y", "f", "i", "l", "e">>

\* fs.mkdtempSync: a fresh directory for each invocation
ViewTmpDir(n) == T_viewTmp \o NumToString(n)
TempPng(tmp) == tmp \o ScreenDot \o FmtPng
TempOutput(tmp, fmt) == tmp \o ScreenDot \o fmt

\* What idb ui describe-all can give: a tree whose first element has a frame,
\* a tree without one, unparsable output, or a failure
DescribeOk(frame) == [kind |-> "ok", frame |-> frame, code |-> 0, text |-> <<>>]
DescribeBadJson == [kind |-> "badjson", frame |-> None, code |-> 0, text |-> <<>>]
DescribeResults ==
    {DescribeOk(Some([height |-> FrameHeight, width |-> FrameWidth])), DescribeOk(None),
     DescribeBadJson, [kind |-> "fail", frame |-> None, code |-> 1, text |-> ErrBoom]}

\* await run(...): the call starts, and the handler is resumed when it returns
StartCall(v, call) ==
    [v EXCEPT !.started = @ \o <<call @@ [result |-> "pending"]>>,
              !.inflight = @ \cup {Len(v.started) + 1}]
CallReturns(v, result) ==
    [v EXCEPT !.started[Len(v.started)].result = result,
              !.inflight = @ \ {Len(v.started)}]

\* One stretch of view() between two awaits: the call's state after it, the
\* file-system operations made, and, when the call has ended, its result
Step(v, fs, ended, err, out) == [v |-> v, fs |-> fs, ended |-> ended, err |-> err, out |-> out]

\* The catch block of view(): stop the spinner and rethrow
viewCatch(v, fs, err) == Step([v EXCEPT !.pc = "done"], fs, TRUE, err, <<>>)

ScreenshotCall(deviceId, tmp) ==
    Blocking("xcrun", <<T_simctl, T_io, deviceId, T_screenshot, T_typePng, T_sep, TempPng(tmp)>>)
DescribeCall(deviceId) == Blocking("idb", <<T_ui, T_describeAll, T_udid, deviceId, T_json>>)
ResizeCall(frame, tmp, fmt) ==
    Blocking("sips", <<T_z, frame.height, frame.width, T_s, T_format, FmtJpeg,
                       T_s, T_formatOptions, Quality80, TempPng(tmp), T_out, TempOutput(tmp, fmt)>>)

\* view() starting the accessibility query without awaiting the screenshot
viewTry_NoAwait(v, deviceId, tmp) ==
    Step(StartCall(StartCall([v EXCEPT !.pc = "screenshot", !.tmpDir = Some(tmp),
                                       !.deviceId = deviceId],
                             ScreenshotCall(deviceId, tmp)),
                   DescribeCall(deviceId)),
         <<FsOp("mkdir", tmp)>>, FALSE, NoError, <<>>)

\* view() from the start of its try block to the first await: make the
\* scratch directory, start the screenshot
viewTry(v, deviceId, tmp) ==
    Step(StartCall([v EXCEPT !.pc = "screenshot", !.tmpDir = Some(tmp), !.deviceId = deviceId],
                   ScreenshotCall(deviceId, tmp)),
         <<FsOp("mkdir", tmp)>>, FALSE, NoError, <<>>)

\* view() up to its first await: with an explicit or environment device the
\* device is settled without a call, otherwise the device list is queried
viewStart(device, envDev, fmtOpt, output, tmp) ==
    LET v == [NoView EXCEPT !.fmt = IF Truthy(fmtOpt) THEN fmtOpt[1] ELSE FmtJpeg,
                            !.output = output]
        d == getDeviceId(device, envDev, ListThrow)
    IN  IF ~Truthy(device) /\ ~Truthy(envDev)
        THEN Step(StartCall([v EXCEPT !.pc = "list"], Blocking("xcrun", ListVector)),
                  <<>>, FALSE, NoError, <<>>)
        ELSE IF d.ok THEN viewTry(v, d.id, tmp)
        ELSE Step([v EXCEPT !.pc = "done"], <<>>, TRUE, d.err, <<>>)

\* the device query returned
viewAfterList(v, lr, tmp) ==
    LET d == getBootedDevice(lr)
        v1 == CallReturns(v, IF lr.kind = "throw" THEN "fail" ELSE "ok")
    IN  IF d.ok THEN viewTry(v1, d.id, tmp)
        ELSE Step([v1 EXCEPT !.pc = "done"], <<>>, TRUE, d.err, <<>>)

\* the screenshot returned: start the accessibility query
viewAfterScreenshot(v, rr) ==
    LET v1 == CallReturns(v, rr.kind)
    IN  IF rr.kind = "fail" THEN viewCatch(v1, <<>>, ProcessError(rr.code, rr.text))
        ELSE Step(StartCall([v1 EXCEPT !.pc = "describe"], DescribeCall(v.deviceId)),
                  <<FsOp("write", TempPng(v.tmpDir[1]))>>, FALSE, NoError, <<>>)

\* view() from the image in tempOutput to its end: copy it to the output path
\* or print it, then remove the scratch directory
viewDeliver(v, fs, fmt, copyOk) ==
    IF Truthy(v.output)
    THEN IF ~copyOk THEN viewCatch(v, fs, ProcessError(-1, ErrCopyFile))
         ELSE Step([v EXCEPT !.pc = "done"],
                   fs \o <<FsOp("write", PathResolve(v.output[1])), FsOp("rmdir", v.tmpDir[1])>>,
                   TRUE, NoError, LogSuccess(fmt, "Screen saved"))
    ELSE Step([v EXCEPT !.pc = "done"], fs \o <<FsOp("rmdir", v.tmpDir[1])>>, TRUE, NoError,
              IF fmt \in {"json", "machine"} THEN LogJson(fmt, "view", TRUE)
              ELSE LogSuccess(fmt, "Screen captured") \o <<Event("console", "data", TRUE)>>)

\* the accessibility query returned: parse, then resize (a frame and jpeg) or copy
viewAfterDescribe(v, dr, fmt, copyOk) ==
    LET v1 == CallReturns(v, IF dr.kind = "fail" THEN "fail" ELSE "ok")
        tmp == v.tmpDir[1]
    IN  IF dr.kind = "fail" THEN viewCatch(v1, <<>>, ProcessError(dr.code, dr.text))
        ELSE IF dr.kind = "badjson" THEN viewCatch(v1, <<>>, ProcessError(-1, ErrUnexpectedToken))
        ELSE IF dr.frame # None /\ v.fmt = FmtJpeg
        THEN Step(StartCall([v1 EXCEPT !.pc = "resize"], ResizeCall(dr.frame[1], tmp, v.fmt)),
                  <<>>, FALSE, NoError, <<>>)
        ELSE viewDeliver(v1, <<FsOp("write", TempOutput(tmp, v.fmt))>>, fmt, copyOk)

\* the resize returned
viewAfterResize(v, rr, fmt, copyOk) ==
    LET v1 == CallReturns(v, rr.kind)
    IN  IF rr.kind = "fail" THEN viewCatch(v1, <<>>, ProcessError(rr.code, rr.text))
        ELSE viewDeliver(v1, <<FsOp("write", TempOutput(v.tmpDir[1], v.fmt))>>, fmt, copyOk)

\* The effect of one stretch of view() on the state
ViewStep(s, g) ==
    /\ view' = s.v
    /\ files' = ApplyFs([files |-> files, dirs |-> dirs], s.fs).files
    /\ dirs' = ApplyFs([files |-> files, dirs |-> dirs], s.fs).dirs
    /\ inv' = IF s.ended
              THEN Invocation("view", [spawns |-> s.v.started, err |-> s.err, out |-> s.out,
                                       exit |-> -1], g)
              ELSE inv
    /\ UNCHANGED <<envDevice, format, recordingPath, recordingPid, procs, nextPid, pc, rec,
                   resolved, calls>>

ViewFormats == {Some(FmtJpeg), Some(FmtPng)}
ViewOutputs == {None, Some(OutShot)}

\* The view command is run; it has no device option of its own
ViewStart ==
    /\ CanCall
    /\ view.pc \in {"idle", "done"}
    /\ count' = count + 1
    /\ \E fmtOpt \in ViewFormats, output \in ViewOutputs :
          ViewStep(viewStart(None, envDevice, fmtOpt, output, ViewTmpDir(count)),
                   Input(FALSE, {}, None))

ViewListReturns ==
    /\ view.pc = "list"
    /\ \E lr \in HandlerListResults :
          ViewStep(viewAfterList(view, lr, ViewTmpDir(count)), Input(FALSE, {}, None))
    /\ UNCHANGED count

ViewScreenshotReturns ==
    /\ view.pc = "screenshot"
    /\ \E rr \in {RunOk, RunFail(1, ErrBoom)} :
          ViewStep(viewAfterScreenshot(view, rr), Input(FALSE, {}, None))
    /\ UNCHANGED count

ViewDescribeReturns ==
    /\ view.pc = "describe"
    /\ \E dr \in DescribeResults, copyOk \in BOOLEAN :
          ViewStep(viewAfterDescribe(view, dr, format, copyOk), Input(FALSE, {}, None))
    /\ UNCHANGED count

ViewResizeReturns ==
    /\ view.pc = "resize"
    /\ \E rr \in {RunOk, RunFail(1, ErrBoom)}, copyOk \in BOOLEAN :
          ViewStep(viewAfterResize(view, rr, format, copyOk), Input(FALSE, {}, None))
    /\ UNCHANGED count

\* What execFile can report for a blocking call
ExecOutcomes ==
    {ExecOk(OutPadded, ErrPadded), ExecOk(<<>>, <<>>),
     ExecExit(1, ErrCommandFailed), ExecExit(2, ErrPermission),
     ExecSpawnFailure("ENOENT", ErrENOENT), ExecSpawnFailure("ETIMEDOUT", ErrBoom),
     ExecTimeout}

\* A direct call of the exported run
Run ==
    /\ pc = "idle"
    /\ Len(calls) < MaxCalls
    /\ \E timeout \in {None, Some(0), Some(5)}, ex \in ExecOutcomes :
          calls' = calls \o <<[op |-> "run", timeout |-> timeout, ex |-> ex,
                               r |-> run(timeout, ex), thrown |-> NoError]>>
    /\ UNCHANGED <<envDevice, format, recordingPath, recordingPid, files, dirs, procs,
                   nextPid, pc, rec, inv, count, resolved, view>>

\* A direct call of the exported killProcess; pkill exits 1 when no process
\* matches the pattern
KillProcess ==
    /\ pc = "idle"
    /\ Len(calls) < MaxCalls
    /\ \E ex \in {ExecOk(<<>>, <<>>), ExecExit(1, ErrCommandFailed), ExecExit(2, ErrPermission),
                  ExecSpawnFailure("ENOENT", ErrENOENT), ExecTimeout} :
          calls' = calls \o <<[op |-> "killProcess", timeout |-> None, ex |-> ex,
                               r |-> run(None, ex), thrown |-> killProcess(run(None, ex))]>>
    /\ UNCHANGED <<envDevice, format, recordingPath, recordingPid, files, dirs, procs,
                   nextPid, pc, rec, inv, count, resolved, view>>

ExecutorNext == Run \/ KillProcess

\* The handlers that run to their end in one step
HandlerNext ==
    \/ Tap \/ Type \/ Swipe \/ Press
    \/ Launch \/ Uninstall \/ Install \/ Notify \/ AppList
    \/ SimulatorList

\* The recording session: record, its start wait, record-stop
RecordingNext ==
    \/ Record \/ StderrData \/ ProcessExits \/ Poll \/ Ceiling
    \/ RecordStop

\* The view command, one await at a time
ViewNext ==
    \/ ViewStart \/ ViewListReturns \/ ViewScreenshotReturns
    \/ ViewDescribeReturns \/ ViewResizeReturns

Next == HandlerNext \/ ResolveDevice \/ RecordingNext \/ ExecutorNext \/ ViewNext

Spec == Init /\ [][Next]_vars
HandlerSpec == Init /\ [][HandlerNext]_vars
ResolveSpec == Init /\ [][ResolveDevice]_vars
RecordingSpec == Init /\ [][RecordingNext]_vars
ExecutorSpec == Init /\ [][ExecutorNext]_vars
ViewSpec == Init /\ [][ViewNext]_vars

\* ------------------------------------------------------------------ claims
ValidationFailure(e) ==
    \/ e.cls = "ZodError"
    \/ e.cls = "SimulatorError" /\ e.code = INVALID_ARGUMENTS

\* C1: in every handler invocation where a user-supplied field fails
\* validation, the invocation ends with a validation failure and no process
\* (not even the device-list query) was spawned during it.
C1_ValidationBeforeAnySpawn ==
    (inv.cmd # "none" /\ inv.done /\ inv.invalid)
        => (ValidationFailure(inv.err) /\ inv.spawns = <<>>)

\* C2: in every vector handed to the executor, every positional user value
\* (coordinates, text, bundle identifier, path) comes after a "--" element.
C2_UserValuesAfterSeparator ==
    \A i \in 1..Len(inv.spawns) :
        LET a == inv.spawns[i].args
        IN  \A k \in 1..Len(a) :
                a[k] \in inv.userVals => \E j \in 1..(k - 1) : a[j] = T_sep

InstallSpawned(i) ==
    \E k \in 1..Len(i.spawns) : \E j \in 1..Len(i.spawns[k].args) : i.spawns[k].args[j] = T_install

\* C3: install of an existing path that ends in ".app" and is not a directory
\* fails with "Invalid app bundle: .app should be a directory"
\* (InvalidArguments) and never invokes the install operation.
C3_FlatAppBundleRejected ==
    (/\ inv.cmd = "install"
     /\ inv.devSrc \in {"explicit", "env"} /\ ~inv.invalid
     /\ inv.exists /\ ~inv.isDir
     /\ Len(inv.path) >= 4
     /\ SubSeq(inv.path, Len(inv.path) - 3, Len(inv.path)) = EXT_APP)
        => (/\ inv.err.msg = "Invalid app bundle: .app should be a directory"
            /\ inv.exit = INVALID_ARGUMENTS
            /\ ~InstallSpawned(inv))

\* C4: install of a path that does not exist fails with FileNotFound (exit
\* code 6) and no process was spawned in the invocation, whichever way the
\* device is determined.
C4_MissingPathBeforeAnySpawn ==
    (inv.cmd = "install" /\ ~inv.invalid /\ ~inv.exists)
        => (/\ inv.err.cls = "SimulatorError" /\ inv.err.code = FILE_NOT_FOUND
            /\ inv.exit = FILE_NOT_FOUND
            /\ inv.spawns = <<>>)

\* C5: after every record-stop, returned or thrown, the session descriptors
\* (recording path and process identifier) are cleared.
C5_StopAlwaysClearsSession ==
    inv.cmd = "recordStop" => (recordingPath = None /\ recordingPid = None)

\* C6: record-stop with no recording process raises no error and reports the
\* "no active recording" outcome, not the outcome of a successful stop.
C6_NoActiveRecordingReported ==
    (inv.cmd = "recordStop" /\ inv.procs = {} /\ inv.kill = RunFail(1, <<>>))
        => (/\ inv.err.cls = "none"
            /\ inv.out # <<>>
            /\ \A k \in 1..Len(inv.out) :
                   /\ inv.out[k].msg = "No active recording found"
                   /\ ~inv.out[k].success)

\* C7: when the recording process dies before it confirmed, record start
\* fails with an error carrying the captured error-stream text and leaves
\* the session descriptors as they were.
C7_DeathBeforeConfirmationFails ==
    (inv.cmd = "record" /\ inv.done /\ inv.died)
        => (/\ inv.err.cls = "SimulatorError"
            /\ inv.err.text = inv.errorOutput
            /\ recordingPath = inv.recordingPath
            /\ recordingPid = inv.recordingPid)

\* C8: at most one recording process started by the program is live, and the
\* session descriptor refers to it.
C8_AtMostOneSession ==
    /\ Cardinality(procs) <= 1
    /\ (pc = "idle" /\ procs # {})
          => \E p \in procs : recordingPid = Some(p.pid) /\ recordingPath = Some(p.path)

BackgroundSpawns(i) == {k \in 1..Len(i.spawns) : i.spawns[k].mode = "background"}

DeviceResolutionFailed(e) ==
    \/ e.cls = "Error"
    \/ e.msg \in {"Invalid device UDID format",
                  "Invalid device UDID in SIM_CLI_DEVICE environment variable",
                  "No simulator is currently booted",
                  "Failed to list devices", "Failed to parse device list"}

C9_WitnessForce ==
    /\ inv.cmd = "record" /\ inv.exists /\ inv.force
    /\ BackgroundSpawns(inv) # {}

\* What the resolution order gives for explicit argument d and environment
\* default e, where Present says when a value counts as given
ResolutionOrder(Present(_), entry) ==
    LET d == entry.device
        e == entry.envDevice
        r == entry.r
        Explicit(v) == r.ok /\ r.id = v /\ r.spawns = <<>>
        Rejected == ~r.ok /\ r.err.code = INVALID_ARGUMENTS /\ r.spawns = <<>>
    IN  IF Present(d)
        THEN IF udidSchema(d[1]) THEN Explicit(d[1]) ELSE Rejected
        ELSE IF Present(e)
             THEN IF udidSchema(e[1]) THEN Explicit(e[1]) ELSE Rejected
             ELSE r.spawns = <<Blocking("xcrun", ListVector)>>

Given(v) == v # None

\* C10 as written: explicit, then environment, then booted query; a valid
\* explicit UDID comes back unchanged with no query (so twice the same); a
\* given value that is not a valid UDID fails and never falls through.
C10_ResolutionOrder_Original ==
    \A i \in 1..Len(resolved) : ResolutionOrder(Given, resolved[i])

\* C10 amended: the same, for non-empty values; an empty explicit argument or
\* environment value counts as absent and falls through to the next source.
C10_ResolutionOrder ==
    /\ \A i \in 1..Len(resolved) : ResolutionOrder(Truthy, resolved[i])
    /\ \A i, j \in 1..Len(resolved) :
          (/\ Truthy(resolved[i].device) /\ udidSchema(resolved[i].device[1])
           /\ resolved[j].device = resolved[i].device)
             => (resolved[i].r = resolved[j].r /\ resolved[i].r.spawns = <<>>)

C10_Witness ==
    /\ Len(resolved) = 2
    /\ resolved[1].device = Some(UdidB)
    /\ resolved[2].device = Some(UdidB)
    /\ resolved[1].r.id = UdidB /\ resolved[2].r.id = UdidB
    /\ envDevice = Some(UdidA)

\* The entries of a parsed device list whose state is booted
BootedEntries(lr) == {k \in 1..Len(lr.devices) : lr.devices[k].state = "Booted"}

\* The resolution falls to the booted-device query
Queried(entry) == ~Truthy(entry.device) /\ ~Truthy(entry.envDevice)

\* C11: with no explicit device and no environment default, a device list
\* with more than one booted device makes the resolution fail with an error
\* instead of returning one of them.
C11_AmbiguousBootedFails ==
    \A i \in 1..Len(resolved) :
        (/\ Queried(resolved[i])
         /\ resolved[i].lr.kind = "ok"
         /\ Cardinality(BootedEntries(resolved[i].lr)) > 1)
            => (~resolved[i].r.ok /\ resolved[i].r.err.cls = "SimulatorError")

\* C12: with no explicit device and no environment default, a parsed list
\* with no booted device fails with SimulatorNotFound (exit code 3) and the
\* three remediation hints; unparsable output fails with the parse error
\* (GeneralError), not with SimulatorNotFound.
C12_NoBootedAndUnparsable ==
    \A i \in 1..Len(resolved) :
        LET e == resolved[i]
        IN  Queried(e) =>
              /\ (e.lr.kind = "ok" /\ BootedEntries(e.lr) = {}) =>
                    /\ ~e.r.ok
                    /\ e.r.err.cls = "SimulatorError"
                    /\ e.r.err.code = SIMULATOR_NOT_FOUND
                    /\ handleError(e.r.err) = 3
                    /\ Len(e.r.err.suggestions) = 3
              /\ e.lr.kind = "badjson" =>
                    /\ ~e.r.ok
                    /\ e.r.err.msg = "Failed to parse device list"
                    /\ e.r.err.code = GENERAL_ERROR
                    /\ handleError(e.r.err) = GENERAL_ERROR

C12_Witness ==
    /\ Len(resolved) = 2
    /\ Queried(resolved[1]) /\ resolved[1].lr = ListOk(<<Device(UdidA, "Shutdown")>>)
    /\ resolved[1].r.err.code = SIMULATOR_NOT_FOUND
    /\ Queried(resolved[2]) /\ resolved[2].lr = ListBadJson
    /\ resolved[2].r.err.msg = "Failed to parse device list"

\* The kinds the classification table gives a message: CommandNotFound for
\* "command not found", otherwise the kind of any phrase the message
\* contains, GeneralError when it contains none
TableKinds(text) ==
    IF Includes(text, S_commandNotFound) THEN {COMMAND_NOT_FOUND}
    ELSE LET matched ==
                 (IF Includes(text, S_timedOut) THEN {TIMEOUT} ELSE {})
                 \cup (IF Includes(text, S_permissionDenied) \/ Includes(text, S_EACCES)
                       THEN {PERMISSION_DENIED} ELSE {})
                 \cup (IF Includes(text, S_notFound) \/ Includes(text, S_ENOENT)
                       THEN {FILE_NOT_FOUND} ELSE {})
                 \cup (IF Includes(text, S_NoBooted) THEN {SIMULATOR_NOT_FOUND} ELSE {})
         IN  IF matched = {} THEN {GENERAL_ERROR} ELSE matched

\* A handler invocation that has ended
Ended == inv.cmd # "none" /\ inv.done

\* C13: every unclassified runtime error that reaches the reporter makes the
\* process exit with the code the table gives its message: 127 for "command
\* not found", 4 for "timed out", 5 for "permission denied" / EACCES, 6 for
\* "not found" / ENOENT, 3 for the no-booted-simulator phrase, 1 otherwise.
C13_ReporterTable ==
    (Ended /\ inv.reported # <<>> /\ inv.err.cls = "Error")
        => inv.exit \in TableKinds(inv.err.text)

\* C14: every invocation that ends in a validation failure exits with the
\* InvalidArguments code 2, in every command and every output mode.
C14_ValidationExitsTwo ==
    (Ended /\ ValidationFailure(inv.err)) => inv.exit = INVALID_ARGUMENTS

\* C15: a failing invocation in machine-readable mode prints exactly the
\* reporter's JSON error object and nothing else, and exits with the code
\* the same call has in human mode.
C15_MachineReadableSameExit ==
    (Ended /\ inv.err.cls # "none" /\ IsMachineReadable(format))
        => (/\ inv.out = <<>>
            /\ Len(inv.reported) = 1
            /\ inv.reported[1].ch = "errorJson"
            /\ inv.exit = inv.humanExit)

\* The outcomes an invocation wrote to the output sink: success payloads
\* (a success line with its table counts once) and rendered errors
Outcomes(i) ==
    Cardinality({k \in 1..Len(i.out) : i.out[k].ch \in {"success", "json", "console", "warn"}})
      + Len(i.reported)

\* C16: every handler invocation that has ended wrote exactly one outcome,
\* in human mode and in JSON mode alike.
C16_ExactlyOneOutcome ==
    Ended => Outcomes(inv) = 1

\* The vectors an invocation handed to the UI bridge
BridgeVectors(i) == {i.spawns[k].args : k \in {j \in 1..Len(i.spawns) : i.spawns[j].bin = "idb"}}

\* The coordinates as decimal strings, in argument order
CoordStrings(c) == [k \in 1..Len(c) |-> NumToString(c[k])]

\* The vector of a tap or swipe invocation i that carries the duration when
\* hasDuration and the delta when hasDelta
GestureVector(i, hasDuration, hasDelta) ==
    <<T_ui, IF i.cmd = "tap" THEN T_tap ELSE T_swipe, T_udid, i.deviceId, T_json>>
      \o (IF hasDuration THEN <<T_duration, i.duration[1]>> ELSE <<>>)
      \o (IF i.cmd = "swipe" /\ hasDelta THEN <<T_delta, JsString(i.delta[1])>> ELSE <<>>)
      \o <<T_sep>> \o CoordStrings(i.coords)

ControlVectors(i) ==
    {i.spawns[k].args : k \in {j \in 1..Len(i.spawns) : i.spawns[j].bin = "xcrun"}}
      \ {ListVector}

\* The six single button names and their fixed tokens
SingleButtons ==
    {<<B_home, T_HOME>>, <<B_lock, T_LOCK>>, <<B_power, T_LOCK>>,
     <<B_volume_up, T_VOLUME_UP>>, <<B_volume_down, T_VOLUME_DOWN>>, <<B_ringer, T_RINGER>>}

C19_RunContract ==
    \A i \in 1..Len(calls) :
        LET c == calls[i]
            bound == IF c.timeout # None /\ c.timeout[1] # 0 THEN c.timeout[1] ELSE 30
            timedOut == c.ex.killed \/ c.ex.codeName = "ETIMEDOUT"
        IN  c.op = "run" =>
              /\ (c.ex.kind = "error" /\ timedOut) =>
                    /\ c.r.kind = "fail"
                    /\ c.r.text = S_TimedOutAfter \o NumToString(bound) \o S_seconds
                    /\ handleError(ProcessError(c.r.code, c.r.text)) = TIMEOUT
              /\ (c.ex.kind = "error" /\ ~timedOut) =>
                    c.r = RunFail(c.ex.exitCode, c.ex.message)
              /\ c.ex.kind = "ok" =>
                    /\ c.r.kind = "ok"
                    /\ c.ex.stdout = OutPadded => c.r.stdout = OutTrimmed
                    /\ c.ex.stderr = ErrPadded => c.r.stderr = ErrTrimmed
                    /\ c.ex.stdout = <<>> => c.r.stdout = <<>>

\* C20: killProcess returns normally when pkill succeeds or exits with code
\* 1 (no process matched), however many times in a row it is called, and
\* throws the error of the run for every other failure.
C20_KillIdempotentOnAbsence ==
    \A i \in 1..Len(calls) :
        LET c == calls[i]
        IN  c.op = "killProcess" =>
              /\ c.ex.kind = "ok" => c.thrown = NoError
              /\ (c.ex.kind = "error" /\ c.ex.exitCode = 1) => c.thrown = NoError
              /\ (c.ex.kind = "error" /\ c.ex.exitCode # 1) =>
                    /\ c.thrown.cls = "Error"
                    /\ c.thrown.text = c.r.text
                    /\ c.thrown.code = c.r.code

C20_Witness ==
    /\ Len(calls) = 2
    /\ \A i \in 1..2 :
          /\ calls[i].op = "killProcess"
          /\ calls[i].ex = ExecExit(1, ErrCommandFailed)
          /\ calls[i].thrown = NoError

\* The blocking calls of an invocation
BlockingCalls(i) == {k \in 1..Len(i.spawns) : i.spawns[k].mode = "blocking"}

\* C21: every blocking call of an invocation is bounded by the --timeout flag
\* of that invocation: T seconds when the flag is T, 30 seconds when the flag
\* is absent.
C21_TimeoutFlagApplied ==
    Ended => \A k \in BlockingCalls(inv) :
                 inv.spawns[k].timeoutMs =
                     IF inv.timeoutFlag # None THEN inv.timeoutFlag[1] * 1000 ELSE 30000

\* The scratch file of a notification was written in this invocation
WroteScratch(i) == \E k \in 1..Len(i.fs) : i.fs[k] = FsOp("write", T_tmpFile)

\* C22: when a notification send that wrote its payload scratch file has
\* finished, the scratch file does not exist, whether the push succeeded or
\* failed.
C22_ScratchFileDeleted ==
    (Ended /\ inv.cmd = "notify" /\ WroteScratch(inv)) => T_tmpFile \notin files

\* A send whose push failed after the scratch file was written
C22_Witness ==
    /\ Ended /\ inv.cmd = "notify" /\ WroteScratch(inv)
    /\ inv.err.cls = "Error"
    /\ T_tmpFile \notin files

\* The hand-written payload equivalent to discrete options: an alert with one
\* entry for each option that is given, in the order title, subtitle, body, and
\* no alert when none is given
AlertKeys == <<"title", "subtitle", "body">>
GivenEntries(o) ==
    LET all == [k \in 1..Len(AlertKeys) |-> Entry(AlertKeys[k], o[AlertKeys[k]])]
    IN  SelectSeq(all, LAMBDA e : e.value # None)
Handwritten(o) == Payload(IF GivenEntries(o) = <<>> THEN None ELSE Some(GivenEntries(o)))
AsRawPayload(o) == NotificationOptions(None, None, None, Some(Handwritten(o)), None)
AsPayloadFile(o) ==
    NotificationOptions(None, None, None, None, Some(PayloadFile(TRUE, Handwritten(o))))

\* A notify invocation built from discrete options that wrote its payload
DiscreteSend ==
    /\ Ended /\ inv.cmd = "notify"
    /\ inv.options.payload = None /\ inv.options.file = None
    /\ inv.written # None

\* The alert written is the one the equivalent hand-written payload gives,
\* and it has no key of an absent option
SameAlertAsHandwritten ==
    /\ inv.written[1].alert = PayloadText(buildPayload(AsRawPayload(inv.options))).alert
    /\ inv.written[1].alert = PayloadText(buildPayload(AsPayloadFile(inv.options))).alert
    /\ inv.written[1].alert # None =>
          \A k \in 1..Len(inv.written[1].alert[1]) :
              inv.options[inv.written[1].alert[1][k].key] # None

\* C27 as stated: a notification built from discrete title/body options and
\* one built from the equivalent hand-written payload (raw text or file) write
\* the same aps.alert, and absent options contribute no key.
C27_AlertRoundTrip_Original == DiscreteSend => SameAlertAsHandwritten

\* Some discrete option is a non-empty string, or none is given
SomeNonEmptyOrNoneGiven(o) ==
    \/ \E k \in 1..Len(AlertKeys) : o[AlertKeys[k]] # None /\ o[AlertKeys[k]][1] # <<>>
    \/ \A k \in 1..Len(AlertKeys) : o[AlertKeys[k]] = None

\* C27 (amended): the same, for discrete options of which at least one is a
\* non-empty string (or none is given); when every given option is the empty
\* string the discrete build writes no alert at all.
C27_AlertRoundTrip ==
    /\ (DiscreteSend /\ SomeNonEmptyOrNoneGiven(inv.options)) => SameAlertAsHandwritten
    /\ (DiscreteSend /\ ~SomeNonEmptyOrNoneGiven(inv.options)) => inv.written[1].alert = None

\* A send with title and body only, whose written alert has exactly these two keys
C27_Witness ==
    /\ DiscreteSend
    /\ inv.options.title = Some(TitleHi) /\ inv.options.body = Some(BodyB)
    /\ inv.written[1].alert = Some(<<Entry("title", Some(TitleHi)), Entry("body", Some(BodyB))>>)

\* The view call has ended
ViewEnded == view.pc = "done"

\* Nothing of the scratch directory is left
ScratchGone(tmp) ==
    /\ tmp \notin dirs
    /\ \A f \in files : ~(Len(f) > Len(tmp) /\ SubSeq(f, 1, Len(tmp)) = tmp)

\* C23: when a view invocation that created its scratch directory has
\* finished, the scratch directory and its files do not exist, on success and
\* on every failure path.
C23_ViewScratchCleaned ==
    (ViewEnded /\ view.tmpDir # None) => ScratchGone(view.tmpDir[1])

\* C29: within one invocation at most one blocking call is in flight: a
\* blocking call is started only after every earlier one of the invocation has
\* returned or failed, and a failed call is never followed by the same call
\* again.
C29_OneBlockingCallInFlight ==
    /\ Cardinality(view.inflight) <= 1
    /\ \A k \in 1..Len(view.started) :
          /\ view.started[k].mode = "blocking"
          /\ k < Len(view.started) => view.started[k].result # "pending"
          /\ view.started[k].result = "pending" <=> k \in view.inflight
    /\ \A i, j \in 1..Len(view.started) :
          (i < j /\ view.started[i].result = "fail") =>
              <<view.started[j].bin, view.started[j].args>>
                  # <<view.started[i].bin, view.started[i].args>>

\* A view that made its four calls one after the other: device query,
\* screenshot, accessibility query, resize
C29_Witness ==
    /\ ViewEnded /\ inv.err.cls = "none"
    /\ Len(view.started) = 4
    /\ view.started[1].args = ListVector
    /\ view.started[2].args[4] = T_screenshot
    /\ view.started[3].bin = "idb"
    /\ view.started[4].bin = "sips"
    /\ \A k \in 1..4 : view.started[k].result = "ok"

\* A tap, type or swipe that invoked the UI bridge
BridgeInvoked == Ended /\ inv.cmd \in {"tap", "type", "swipe"} /\ inv.bridge # None

SuccessEmitted == \E k \in 1..Len(inv.out) : inv.out[k].success

Typed == Ended /\ inv.cmd = "type"
AllPrintable(t) == \A i \in 1..Len(t) : t[i] \in PrintableAscii
TextRejected == inv.err.cls = "ZodError"

\* What the type handler does with an accepted and with a rejected text
TextHandled(accepted) ==
    /\ accepted <=> ~TextRejected
    /\ TextRejected => inv.spawns = <<>>
    /\ inv.bridge # None =>
          inv.spawns[Len(inv.spawns)].args[Len(inv.spawns[Len(inv.spawns)].args)] = inv.text

\* C26 as stated: text validation accepts a string, unchanged, exactly when
\* all its characters are in 0x20-0x7E and its length is at most 500; any
\* other string is rejected with a validation error and the type handler then
\* spawns no process.
C26_TextValidation_Original ==
    Typed => TextHandled(AllPrintable(inv.text) /\ Len(inv.text) <= 500)

\* C26 (amended): the same, with the empty string rejected too.
C26_TextValidation ==
    Typed => TextHandled(AllPrintable(inv.text) /\ Len(inv.text) <= 500 /\ inv.text # <<>>)

\* A text of exactly 500 printable characters reached the bridge unchanged
C26_Witness ==
    /\ Typed /\ Len(inv.text) = 500 /\ inv.bridge # None
    /\ inv.spawns[Len(inv.spawns)].args[Len(inv.spawns[Len(inv.spawns)].args)] = inv.text

\* A text of 501 printable characters was rejected before any process
C26_WitnessTooLong ==
    /\ Typed /\ Len(inv.text) = 501 /\ TextRejected /\ inv.spawns = <<>>

\* s contains sub, character for character
Contains(s, sub) ==
    \E i \in 0..(Len(s) - Len(sub)) : SubSeq(s, i + 1, i + Len(sub)) = sub

\* The devices of the tool's list in its order, each with its runtime
RECURSIVE Flatten(_)
Flatten(runtimes) ==
    IF runtimes = <<>> THEN <<>>
    ELSE [k \in 1..Len(Head(runtimes).deviceList) |->
             Head(runtimes).deviceList[k] @@ [runtimeIdentifier |-> Head(runtimes).id]]
         \o Flatten(Tail(runtimes))

\* A device satisfies every filter that is given
SatisfiesAll(d, ios, deviceType, booted) ==
    /\ ios # None => Contains(d.runtimeIdentifier, ios[1])
    /\ deviceType # None => Contains(d.name, deviceType[1])
    /\ booted => d.state = "Booted"

\* A device listing that returned
Listed == Ended /\ inv.cmd = "simulators" /\ inv.listed.ok

\* C25: device listing returns exactly the devices of the tool's list that
\* satisfy every given filter (runtime contains the iOS-version substring, name
\* contains the device-type substring, state is booted under booted-only), by
\* case-sensitive literal containment, in the order of the tool's list; an
\* omitted filter excludes nothing.
C25_ListFiltersAnd ==
    Listed =>
        inv.listed.devices =
            SelectSeq(Flatten(inv.toolList),
                      LAMBDA d : SatisfiesAll(d, inv.ios, inv.deviceType, inv.booted))

\* All three filters given: of the four devices only the booted iPhone of the
\* iOS 17 runtime is returned
C25_Witness ==
    /\ Listed
    /\ inv.ios = Some(FilterIos17) /\ inv.deviceType = Some(FilterIphone) /\ inv.booted
    /\ Len(Flatten(inv.toolList)) = 4
    /\ Len(inv.listed.devices) = 1
    /\ inv.listed.devices[1].name = NameIphone15

\* A filter in another letter case matches nothing
C25_WitnessCase ==
    /\ Listed /\ inv.toolList # <<>>
    /\ inv.deviceType = Some(FilterIphoneLower)
    /\ inv.listed.devices = <<>>

\* C28: record start does not stay in its start wait: once the 3-second
\* ceiling timer has fired the wait has settled, so a record call that is still
\* waiting has its ceiling timer pending, under every interleaving of the
\* error-stream callback, the polling timer and the ceiling timer.
C28_StartWaitSettles ==
    pc = "waiting" => rec.ceiling

\* The session descriptor changes in this step
DescriptorChanges == recordingPath' # recordingPath \/ recordingPid' # recordingPid

\* This step is a record start leaving its start wait as started
StartPassesWait ==
    /\ pc = "waiting" /\ pc' = "idle"
    /\ inv'.cmd = "record" /\ inv'.done /\ inv'.err.cls = "none"

\* This step is the end of a record start that failed
StartFails ==
    /\ inv'.cmd = "record" /\ inv'.done /\ inv'.err.cls # "none"
    /\ inv' # inv

\* C30: the session descriptor (recording path and process identifier) is
\* written only by a record start that has passed its start wait, and with
\* the output path and the process identifier of that start; a record start
\* that fails leaves it as it was; the only other change is record stop
\* clearing it.
C30_DescriptorFrame ==
    [][/\ DescriptorChanges =>
             \/ /\ StartPassesWait
                /\ recordingPath' = Some(inv.path)
                /\ recordingPid' = Some(inv.pid)
             \/ /\ inv'.cmd = "recordStop" /\ count' = count + 1
                /\ recordingPath' = None /\ recordingPid' = None
       /\ StartPassesWait => (recordingPath' = Some(inv.path) /\ recordingPid' = Some(inv.pid))
       /\ StartFails => UNCHANGED <<recordingPath, recordingPid>>]_vars

\* A second record start has replaced the descriptor of the first with its own
C30_Witness ==
    /\ inv.cmd = "record" /\ inv.done /\ inv.err.cls = "none"
    /\ inv.recordingPid # None
    /\ recordingPath = Some(inv.path)
    /\ recordingPid = Some(inv.pid)
    /\ recordingPid # inv.recordingPid

\* A record start that failed on an existing file while a session was recorded
C30_WitnessFailedStart ==
    /\ inv.cmd = "record" /\ inv.done /\ inv.err.cls = "SimulatorError"
    /\ recordingPath # None
    /\ recordingPath = inv.recordingPath /\ recordingPid = inv.recordingPid

====
